---- MODULE Spec2Model ----
(***************************************************************************)
(* Model of bazarr-subsource: the search ledger (core/tracking.py), the    *)
(* skip decision built on it, and the retrieval pipeline of                *)
(* api/subsource.py (per-language loop, token/archive/extract download).   *)
(*                                                                         *)
(* Time is counted in ticks of TickSeconds seconds (one hour).  A          *)
(* threshold of h hours is carried as the integer 2*h (Python passes 0.5,  *)
(* 1, 2, 24 ...), so that h * 3600 = (2*h * 3600) / 2 stays an integer.    *)
(***************************************************************************)
EXTENDS Integers, Sequences, FiniteSets, TLC

\* ------------------------------------------------------------------ bounds
MaxTime == 1
MaxOps == 2
MaxEntries == 3
MaxRuns == 2
MaxText == 6
MaxResults == 2
MaxSeasons == 2

\* tracking.py:223 compares seconds against hours_threshold * 3600
SecondsPerHour == 3600
TickSeconds == SecondsPerHour

\* ------------------------------------------------------------------ inputs
\* Titles are sequences of characters; the ledger key is computed from them.
Titles == { <<" ", "H">>, <<"h">> }
Languages == { "english", "spanish" }
\* hours_threshold values, doubled: 0.5 h and 2 h
Thresholds2 == { 1, 4 }

VARIABLES
    data,       \* SubtitleTracker.data: key -> list of per-language records
    disk,       \* the tracking file tracking.json
    now,        \* the wall clock read by datetime.now(), in ticks
    ops,        \* number of ledger mutations performed so far
    ioFault,    \* whether the file system refuses to write the tracking file
    call,       \* the last tracker call: operation, arguments, result
    subtitle_info, \* download_subtitle: the candidate handed in
    catalog,    \* download_subtitle: the catalog's answers and file faults
    download_dir, \* the download directory: path -> contents
    result,     \* download_subtitle / _extract_subtitle_from_zip: the outcome
    dlpc,       \* "idle", "ready" (call pending), "returned" or "raised"
    media,      \* get_subtitle_for_*: the wanted movie or episode
    missing_subs, \* its missing_subtitles: the language names requested
    pc,         \* "idle", "loop", "returned" or "raised"
    idx,        \* position of the for loop in missing_subs
    skipped_count,
    downloaded_files,
    plog,       \* what the current call did, in order
    search_interval, \* _search_interval_hours, in hours
    runs        \* number of get_subtitle_for_* calls started


\* --------------------------------------------------------- stored values
\* A value stored under a timestamp field of a ledger record.
\*   none : the field is absent (dict.get returns None)
\*   iso  : a string written by datetime.now().isoformat() at tick t
\*   str  : a non-empty string that is not an ISO timestamp
\*   num  : a JSON value that is not a string (a number)
None == [k |-> "none", t |-> 0]
Garbage == [k |-> "str", t |-> 0]
NonStr == [k |-> "num", t |-> 0]

isoformat(t) == [k |-> "iso", t |-> t]

\* Python truthiness of a stored value (if last_success: / if not last_no_subs:)
Truthy(v) == v.k # "none"

\* datetime.fromisoformat: a value, ValueError for a string that does not
\* parse, TypeError for an argument that is not a string.
fromisoformat(v) ==
    CASE v.k = "iso" -> [exc |-> "none", t |-> v.t]
      [] v.k = "str" -> [exc |-> "ValueError", t |-> 0]
      [] OTHER       -> [exc |-> "TypeError", t |-> 0]

\* ------------------------------------------------------------ ledger key
IsSpace(c) == c = " "

lower(c) ==
    CASE c = "H" -> "h"
      [] c = "S" -> "s"
      [] c = "E" -> "e"
      [] OTHER   -> c

RECURSIVE lstrip(_)
lstrip(s) == IF s # <<>> /\ IsSpace(Head(s)) THEN lstrip(Tail(s)) ELSE s

RECURSIVE rstrip(_)
rstrip(s) ==
    IF s # <<>> /\ IsSpace(s[Len(s)]) THEN rstrip(SubSeq(s, 1, Len(s) - 1)) ELSE s

\* re.sub(r"\s+", " ", s): every run of whitespace becomes one space
RECURSIVE collapse(_)
collapse(s) ==
    IF s = <<>> THEN <<>>
    ELSE IF IsSpace(Head(s))
         THEN <<" ">> \o collapse(lstrip(s))
         ELSE <<Head(s)>> \o collapse(Tail(s))

\* variant: whitespace runs inside the title are kept
_get_movie_key_keeping_runs(title) ==
    rstrip(lstrip([i \in 1..Len(title) |-> lower(title[i])]))

_get_movie_key(title) ==
    collapse(rstrip(lstrip([i \in 1..Len(title) |-> lower(title[i])])))

\* --------------------------------------------------------- ledger records
NewEntry(language) ==
    [language |-> language,
     last_no_subtitles |-> None,
     last_searched |-> None,
     subtitles_found |-> 0,
     last_download_success |-> None,
     downloaded_filename |-> "",
     last_download_failure |-> None,
     last_error |-> ""]

Entries(d, key) == IF key \in DOMAIN d THEN d[key] ELSE <<>>

\* index of the first record of that language, 0 when there is none
FindEntry(entries, language) ==
    IF \E i \in 1..Len(entries) : entries[i].language = language
    THEN CHOOSE i \in 1..Len(entries) :
            /\ entries[i].language = language
            /\ \A j \in 1..(i - 1) : entries[j].language # language
    ELSE 0

\* The common head of the four record_* methods: the records of the key,
\* with a fresh record appended when the language has none yet.
WithEntry(d, title, language) ==
    LET entries == Entries(d, _get_movie_key(title))
    IN  IF FindEntry(entries, language) = 0
        THEN Append(entries, NewEntry(language))
        ELSE entries

\* variant: a fresh record is appended on every call
record_no_subtitles_found_appending(d, title, language, t) ==
    LET key == _get_movie_key(title)
        e == [NewEntry(language) EXCEPT !.last_no_subtitles = isoformat(t)]
    IN  (key :> Append(Entries(d, key), e)) @@ d

record_no_subtitles_found(d, title, language, t) ==
    LET key == _get_movie_key(title)
        entries == WithEntry(d, title, language)
        i == FindEntry(entries, language)
    IN  (key :> [entries EXCEPT ![i].last_no_subtitles = isoformat(t)]) @@ d

\* the deletion of "last_no_subtitles_found" names a field no method writes
record_subtitles_found(d, title, language, count, t) ==
    LET key == _get_movie_key(title)
        entries == WithEntry(d, title, language)
        i == FindEntry(entries, language)
    IN  (key :> [entries EXCEPT ![i].last_searched = isoformat(t),
                                ![i].subtitles_found = count]) @@ d

record_download_success(d, title, language, filename, t) ==
    LET key == _get_movie_key(title)
        entries == WithEntry(d, title, language)
        i == FindEntry(entries, language)
    IN  (key :> [entries EXCEPT ![i].last_download_success = isoformat(t),
                                ![i].downloaded_filename = filename]) @@ d

record_download_failure(d, title, language, error, t) ==
    LET key == _get_movie_key(title)
        entries == WithEntry(d, title, language)
        i == FindEntry(entries, language)
    IN  (key :> [entries EXCEPT ![i].last_download_failure = isoformat(t),
                                ![i].last_error = error]) @@ d

get_last_no_subtitles_timestamp(d, title, language) ==
    LET entries == Entries(d, _get_movie_key(title))
        i == FindEntry(entries, language)
    IN  IF i = 0 THEN None ELSE entries[i].last_no_subtitles

get_last_success_timestamp(d, title, language) ==
    LET entries == Entries(d, _get_movie_key(title))
        i == FindEntry(entries, language)
    IN  IF i = 0 THEN None ELSE entries[i].last_download_success

\* variant: the success timestamp is not consulted
should_skip_search_ignoring_success(d, title, language, threshold2, t) ==
    LET last_no_subs == get_last_no_subtitles_timestamp(d, title, language)
        parsed == fromisoformat(last_no_subs)
    IN  IF ~Truthy(last_no_subs) THEN [ret |-> FALSE, exc |-> "none"]
        ELSE IF parsed.exc = "ValueError" THEN [ret |-> FALSE, exc |-> "none"]
        ELSE IF parsed.exc # "none" THEN [ret |-> FALSE, exc |-> parsed.exc]
        ELSE [ret |-> (t - parsed.t) * TickSeconds
                          < (threshold2 * SecondsPerHour) \div 2,
              exc |-> "none"]

\* should_skip_search: ret is the returned boolean, exc the exception that
\* leaves the method ("none" when it returns).
should_skip_search(d, title, language, threshold2, t) ==
    LET last_no_subs == get_last_no_subtitles_timestamp(d, title, language)
        last_success == get_last_success_timestamp(d, title, language)
        parsed == fromisoformat(last_no_subs)
    IN  IF Truthy(last_success) THEN [ret |-> FALSE, exc |-> "none"]
        ELSE IF ~Truthy(last_no_subs) THEN [ret |-> FALSE, exc |-> "none"]
        ELSE IF parsed.exc = "ValueError" THEN [ret |-> FALSE, exc |-> "none"]
        ELSE IF parsed.exc # "none" THEN [ret |-> FALSE, exc |-> parsed.exc]
        ELSE [ret |-> (t - parsed.t) * TickSeconds
                          < (threshold2 * SecondsPerHour) \div 2,
              exc |-> "none"]

\* ------------------------------------------------------- the tracking file
EmptyLedger == << >>

FileAbsent == [k |-> "absent", doc |-> EmptyLedger]
FileInvalid == [k |-> "invalid", doc |-> EmptyLedger]
FileDoc(d) == [k |-> "doc", doc |-> d]

\* _load_tracking_data: {} when the file is missing or is not valid JSON
_load_tracking_data(file) == IF file.k = "doc" THEN file.doc ELSE EmptyLedger

\* _save_tracking_data: the whole map is dumped; an IOError is logged and
\* swallowed, which leaves the file as it was.
_save_tracking_data(file, d, ioError) == IF ioError THEN file ELSE FileDoc(d)

\* Tracking files found at start-up by a tracker that did not write them:
\* one record whose timestamps may be well formed, unparseable or non-string.
LoadedEntries ==
    { [NewEntry("english") EXCEPT !.last_no_subtitles = Garbage],
      [NewEntry("english") EXCEPT !.last_no_subtitles = NonStr],
      [NewEntry("english") EXCEPT !.last_no_subtitles = isoformat(0),
                                  !.last_download_success = Garbage] }

LoadedFiles ==
    {FileInvalid} \cup { FileDoc(<<"h">> :> <<e>>) : e \in LoadedEntries }

\* ============================================== api/subsource.py: download
\* File names, header values and archive entry names are sequences of
\* tokens: <<"sub/", "b", ".SRT">> is the entry sub/b.SRT.
lowerTok(tok) ==
    CASE tok = ".SRT"      -> ".srt"
      [] tok = ".ASS"      -> ".ass"
      [] tok = "TEXT/HTML" -> "text/html"
      [] OTHER             -> tok

str_lower(name) == [i \in 1..Len(name) |-> lowerTok(name[i])]

subtitle_extensions == {".srt", ".ass", ".ssa", ".sub", ".vtt", ".sbv"}

\* any(file_lower.endswith(ext) for ext in subtitle_extensions)
IsSubtitleName(name) ==
    /\ name # <<>>
    /\ str_lower(name)[Len(name)] \in subtitle_extensions

IsDirTok(tok) == tok = "sub/"

\* os.path.basename: what follows the last directory separator
RECURSIVE basename(_)
basename(name) ==
    IF \E i \in 1..Len(name) : IsDirTok(name[i]) THEN basename(Tail(name)) ELSE name

NoPath == <<>>
ZipPath == <<"temp_", "12345", ".zip">>

\* What a file of the download directory holds.
ZipBytes == [name |-> <<"zip">>, size |-> 0]
PartialBytes == [name |-> <<"partial">>, size |-> 0]
EntryBytes(e) == [name |-> e.name, size |-> e.size]

NoFiles == << >>

RemoveFile(files, path) == [q \in (DOMAIN files) \ {path} |-> files[q]]

\* An archive: its entries in directory order, or a body that is no ZIP.
Archive(entries) == [k |-> "zip", entries |-> entries]
Corrupt == [k |-> "corrupt", entries |-> <<>>]

\* the entries whose name carries a subtitle extension, in archive order
SubtitleFiles(entries) == SelectSeq(entries, LAMBDA e : IsSubtitleName(e.name))

\* variant: the extension is compared case-sensitively
SubtitleFilesCaseSensitive(entries) ==
    SelectSeq(entries, LAMBDA e : e.name # <<>> /\ e.name[Len(e.name)] \in subtitle_extensions)

\* variant: the first subtitle entry is taken whatever its size
LargestFileFirst(subs) == subs[1]

\* max(subtitle_files, key=file_size): the first entry of greatest size
LargestFile(subs) ==
    LET i == CHOOSE i \in 1..Len(subs) :
                /\ \A j \in 1..Len(subs) : subs[j].size <= subs[i].size
                /\ \A j \in 1..(i - 1) : subs[j].size < subs[i].size
    IN  subs[i]

\* _extract_subtitle_from_zip.  fault = "extract" stands for an IOError or
\* OSError while the entry is written; every exception is caught here.
_extract_subtitle_from_zip(zip, files, fault) ==
    IF zip.k # "zip" THEN [ret |-> NoPath, files |-> files]
    ELSE
    LET subtitle_files == SubtitleFiles(zip.entries)
    IN  IF subtitle_files = <<>> THEN [ret |-> NoPath, files |-> files]
        ELSE
        LET selected_file == IF Len(subtitle_files) > 1
                             THEN LargestFile(subtitle_files)
                             ELSE subtitle_files[1]
            target_path == basename(selected_file.name)
            extracted_path == selected_file.name
            extracted == (extracted_path :> EntryBytes(selected_file)) @@ files
            moved == IF extracted_path # target_path
                     THEN (target_path :> extracted[extracted_path])
                              @@ RemoveFile(extracted, extracted_path)
                     ELSE extracted
        IN  IF fault = "extract"
            THEN [ret |-> NoPath, files |-> files]
            ELSE [ret |-> target_path, files |-> moved]

\* variant: the header is compared as sent, without lower-casing
IsHtmlCaseSensitive(content_type) ==
    \E i \in 1..Len(content_type) : content_type[i] = "text/html"

\* "text/html" in content_type.lower()
IsHtml(content_type) ==
    \E i \in 1..Len(content_type) : lowerTok(content_type[i]) = "text/html"

DownloadResult(ret, exc, files, log) ==
    [ret |-> ret, exc |-> exc, files |-> files, log |-> log]

\* download_subtitle, steps 2 and 3: the archive request, the content-type
\* check, the temporary file, the extraction and the clean-up.
DownloadArchive(env, files, log0) ==
    LET log1 == Append(log0, "archive_request")
    IN  IF env.archive = "http_error" THEN DownloadResult(NoPath, "none", files, log1)
        ELSE IF IsHtml(env.content_type) THEN DownloadResult(NoPath, "none", files, log1)
        ELSE IF env.fault = "open" THEN DownloadResult(NoPath, "none", files, log1)
        ELSE IF env.fault = "write"
             THEN DownloadResult(NoPath, "none", (ZipPath :> PartialBytes) @@ files,
                                 Append(log1, "write_zip"))
        ELSE
        LET saved == (ZipPath :> ZipBytes) @@ files
            x == _extract_subtitle_from_zip(env.body, saved, env.fault)
            cleaned == IF env.fault = "remove" THEN x.files
                       ELSE RemoveFile(x.files, ZipPath)
            log2 == log1 \o <<"write_zip", "extract", "remove_zip">>
        IN  DownloadResult(x.ret, "none", cleaned, log2)

\* variant: a missing token does not stop the download
download_subtitle_without_token_check(info, env, files) ==
    IF info.subtitle_link = "" THEN DownloadResult(NoPath, "none", files, <<>>)
    ELSE
    LET log1 == <<"token_request">>
    IN  CASE env.token = "http_error" -> DownloadResult(NoPath, "none", files, log1)
          [] env.token = "bad_json"   -> DownloadResult(NoPath, "none", files, log1)
          [] env.token = "bad_shape"  -> DownloadResult(NoPath, "AttributeError", files, log1)
          [] OTHER                    -> DownloadArchive(env, files, log1)

\* download_subtitle.  env carries what the catalog answers and which file
\* operation fails; log lists the requests and file operations performed.
download_subtitle(info, env, files) ==
    IF info.subtitle_link = "" THEN DownloadResult(NoPath, "none", files, <<>>)
    ELSE
    LET log1 == <<"token_request">>
    IN  CASE env.token = "http_error" -> DownloadResult(NoPath, "none", files, log1)
          [] env.token = "bad_json"   -> DownloadResult(NoPath, "none", files, log1)
          [] env.token = "bad_shape"  -> DownloadResult(NoPath, "AttributeError", files, log1)
          [] env.token = "missing"    -> DownloadResult(NoPath, "none", files, log1)
          [] OTHER                    -> DownloadArchive(env, files, log1)

\* ------------------------------------------------------- tracker actions
NoCall == [op |-> "none", title |-> <<>>, language |-> "", threshold2 |-> 0,
           t |-> 0, ret |-> FALSE, exc |-> "none"]

RecordCall(op, title, language) ==
    [NoCall EXCEPT !.op = op, !.title = title, !.language = language, !.t = now]

Tick ==
    /\ now < MaxTime
    /\ now' = now + 1
    /\ UNCHANGED <<data, disk, ops, ioFault, call>>

RecordNoSubtitlesFound ==
    \E title \in Titles, language \in Languages :
        /\ ops < MaxOps
        /\ data' = record_no_subtitles_found(data, title, language, now)
        /\ disk' = _save_tracking_data(disk, data', ioFault)
        /\ ops' = ops + 1
        /\ call' = RecordCall("record_no_subtitles_found", title, language)
        /\ UNCHANGED <<now, ioFault>>

RecordSubtitlesFound ==
    \E title \in Titles, language \in Languages :
        /\ ops < MaxOps
        /\ data' = record_subtitles_found(data, title, language, 1, now)
        /\ disk' = _save_tracking_data(disk, data', ioFault)
        /\ ops' = ops + 1
        /\ call' = RecordCall("record_subtitles_found", title, language)
        /\ UNCHANGED <<now, ioFault>>

RecordDownloadSuccess ==
    \E title \in Titles, language \in Languages :
        /\ ops < MaxOps
        /\ data' = record_download_success(data, title, language, "sub.srt", now)
        /\ disk' = _save_tracking_data(disk, data', ioFault)
        /\ ops' = ops + 1
        /\ call' = RecordCall("record_download_success", title, language)
        /\ UNCHANGED <<now, ioFault>>

RecordDownloadFailure ==
    \E title \in Titles, language \in Languages :
        /\ ops < MaxOps
        /\ data' = record_download_failure(data, title, language,
                                           "Download failed", now)
        /\ disk' = _save_tracking_data(disk, data', ioFault)
        /\ ops' = ops + 1
        /\ call' = RecordCall("record_download_failure", title, language)
        /\ UNCHANGED <<now, ioFault>>

ShouldSkipSearch ==
    \E title \in Titles, language \in Languages, threshold2 \in Thresholds2 :
        LET r == should_skip_search(data, title, language, threshold2, now)
        IN  /\ call' = [op |-> "should_skip_search", title |-> title,
                        language |-> language, threshold2 |-> threshold2,
                        t |-> now, ret |-> r.ret, exc |-> r.exc]
            /\ UNCHANGED <<data, disk, now, ops, ioFault>>

TrackerNext ==
    \/ Tick
    \/ RecordNoSubtitlesFound
    \/ RecordSubtitlesFound
    \/ RecordDownloadSuccess
    \/ RecordDownloadFailure
    \/ ShouldSkipSearch

\* A tracker constructed with no tracking file present.
TrackerInit ==
    /\ disk = FileAbsent
    /\ data = _load_tracking_data(disk)
    /\ now = 0
    /\ ops = 0
    /\ ioFault = FALSE
    /\ call = NoCall

\* A tracker constructed over a tracking file it finds at start-up.
LoadedInit ==
    /\ disk \in LoadedFiles
    /\ data = _load_tracking_data(disk)
    /\ now = 0
    /\ ops = 0
    /\ ioFault = FALSE
    /\ call = NoCall

trackerVars == <<data, disk, now, ops, ioFault, call>>
downloadVars == <<subtitle_info, catalog, download_dir, result, dlpc>>
pipelineVars == <<media, missing_subs, pc, idx, skipped_count,
                  downloaded_files, plog, search_interval, runs>>
vars == <<trackerVars, downloadVars, pipelineVars>>

NoInfo == [id |-> "12345", subtitle_link |-> ""]
NoEnv == [token |-> "token", archive |-> "ok", content_type |-> <<>>,
          body |-> Corrupt, fault |-> "none"]
NoResult == DownloadResult(NoPath, "none", NoFiles, <<>>)

DownloadIdle ==
    /\ subtitle_info = NoInfo
    /\ catalog = NoEnv
    /\ download_dir = NoFiles
    /\ result = NoResult
    /\ dlpc = "idle"

TrackerIdle ==
    /\ disk = FileAbsent
    /\ data = EmptyLedger
    /\ now = 0
    /\ ops = 0
    /\ ioFault = FALSE
    /\ call = NoCall

NoMedia == [kind |-> "none", title |-> <<>>, season |-> "", episode_number |-> ""]

PipelineIdle ==
    /\ media = NoMedia
    /\ missing_subs = <<>>
    /\ pc = "idle"
    /\ idx = 0
    /\ skipped_count = 0
    /\ downloaded_files = <<>>
    /\ plog = <<>>
    /\ search_interval = 0
    /\ runs = 0

Init == TrackerInit /\ DownloadIdle /\ PipelineIdle
Next == TrackerNext /\ UNCHANGED <<downloadVars, pipelineVars>>
Spec == Init /\ [][Next]_vars

\* A tracker constructed over a tracking file left by an earlier process.
InitLoaded == LoadedInit /\ DownloadIdle /\ PipelineIdle
SpecLoaded == InitLoaded /\ [][Next]_vars

\* ------------------------------------------------------ archive extraction
EntryNames ==
    { <<"a", ".srt">>, <<"sub/", "a", ".SRT">>, <<"c", ".txt">>, <<"d", ".ass">> }
EntrySizes == { 10, 100 }
EntryPool == [name : EntryNames, size : EntrySizes]

\* archives of at most MaxEntries entries with pairwise different names
RECURSIVE EntryLists(_)
EntryLists(n) ==
    IF n = 0 THEN { <<>> }
    ELSE LET shorter == EntryLists(n - 1)
         IN  shorter \cup
             { Append(l, e) : l \in { x \in shorter : Len(x) = n - 1 },
                              e \in EntryPool }

DistinctNames(l) == \A i, j \in 1..Len(l) : i # j => l[i].name # l[j].name

Archives ==
    { Archive(l) : l \in { x \in EntryLists(MaxEntries) : DistinctNames(x) } }

ZipInit ==
    /\ TrackerIdle
    /\ PipelineIdle
    /\ subtitle_info = NoInfo
    /\ catalog \in [token : {"token"}, archive : {"ok"}, content_type : {<<>>},
                body : Archives \cup {Corrupt}, fault : {"none", "extract"}]
    /\ download_dir = (ZipPath :> ZipBytes)
    /\ result = NoResult
    /\ dlpc = "ready"

ExtractSubtitleFromZip ==
    /\ dlpc = "ready"
    /\ LET x == _extract_subtitle_from_zip(catalog.body, download_dir, catalog.fault)
       IN  /\ result' = DownloadResult(x.ret, "none", x.files, <<"extract">>)
           /\ download_dir' = x.files
    /\ dlpc' = "returned"
    /\ UNCHANGED <<trackerVars, pipelineVars, subtitle_info, catalog>>

ZipNext == ExtractSubtitleFromZip
SpecZip == ZipInit /\ [][ZipNext]_vars

\* ----------------------------------------------------------- one download
SubtitleLinks == { "", "lnk" }
TokenAnswers == { "token", "missing", "http_error", "bad_json", "bad_shape" }
ArchiveAnswers == { "ok", "http_error" }
ContentTypes ==
    { <<>>, <<"application/zip">>, <<"text/html">>, <<"TEXT/HTML">>,
      <<"text/html", "; charset=utf-8">> }
Bodies ==
    { Corrupt,
      Archive(<<>>),
      Archive(<<[name |-> <<"c", ".txt">>, size |-> 100]>>),
      Archive(<<[name |-> <<"a", ".srt">>, size |-> 10]>>),
      Archive(<<[name |-> <<"a", ".srt">>, size |-> 10],
                [name |-> <<"sub/", "a", ".SRT">>, size |-> 100]>>) }
Faults == { "none", "open", "write", "extract", "remove" }

DownloadInit ==
    /\ TrackerIdle
    /\ PipelineIdle
    /\ subtitle_info \in [id : {"12345"}, subtitle_link : SubtitleLinks]
    /\ catalog \in [token : TokenAnswers, archive : ArchiveAnswers,
                content_type : ContentTypes, body : Bodies, fault : Faults]
    /\ download_dir = NoFiles
    /\ result = NoResult
    /\ dlpc = "ready"

DownloadSubtitle ==
    /\ dlpc = "ready"
    /\ result' = download_subtitle(subtitle_info, catalog, download_dir)
    /\ download_dir' = result'.files
    /\ dlpc' = IF result'.exc = "none" THEN "returned" ELSE "raised"
    /\ UNCHANGED <<trackerVars, pipelineVars, subtitle_info, catalog>>

DownloadNext == DownloadSubtitle
SpecDownload == DownloadInit /\ [][DownloadNext]_vars

\* ===================================================== ledger properties
\* The record the last tracker call addressed (NewEntry when there is none).
CalledEntry ==
    LET entries == Entries(data, _get_movie_key(call.title))
        i == FindEntry(entries, call.language)
    IN  IF i = 0 THEN NewEntry(call.language) ELSE entries[i]

HasCalledEntry ==
    FindEntry(Entries(data, _get_movie_key(call.title)), call.language) # 0

WithinThreshold(stamp) ==
    (call.t - stamp.t) * TickSeconds < (call.threshold2 * SecondsPerHour) \div 2

\* The search/failure timestamps a record can hold.
AttemptStamps(e) ==
    { v \in {e.last_no_subtitles, e.last_searched, e.last_download_failure} :
        v.k = "iso" }

\* The latest of them.
LastAttempt(e) ==
    CHOOSE v \in AttemptStamps(e) : \A w \in AttemptStamps(e) : w.t <= v.t

\* C1: for a pair with no recorded success and a stored last-search or
\* failure timestamp T, should_skip_search returns True exactly when
\* now - T < hours_threshold * 3600 seconds.
C1_SkipIffWithinThreshold ==
    (/\ call.op = "should_skip_search"
     /\ ~Truthy(CalledEntry.last_download_success)
     /\ AttemptStamps(CalledEntry) # {})
        => /\ call.exc = "none"
           /\ call.ret <=> WithinThreshold(LastAttempt(CalledEntry))

RecordOps ==
    {"record_no_subtitles_found", "record_subtitles_found",
     "record_download_success", "record_download_failure"}

\* The timestamp field a record operation writes.
StampWrittenBy(op, e) ==
    CASE op = "record_no_subtitles_found" -> e.last_no_subtitles
      [] op = "record_subtitles_found"    -> e.last_searched
      [] op = "record_download_success"   -> e.last_download_success
      [] op = "record_download_failure"   -> e.last_download_failure
      [] OTHER                            -> None

\* C2: starting from an empty ledger, every subject key holds at most one
\* record per language, and a record operation leaves its own timestamp in
\* the one record of the pair it addressed (updating, never appending a
\* second record).
C2_OneRecordPerLanguage ==
    /\ \A key \in DOMAIN data :
          \A i, j \in 1..Len(data[key]) :
             i # j => data[key][i].language # data[key][j].language
    /\ call.op \in RecordOps =>
          /\ HasCalledEntry
          /\ StampWrittenBy(call.op, CalledEntry) = isoformat(call.t)

\* C2 witness: the same record operation was repeated for one pair at a
\* later time; the pair still has one record, carrying the later timestamp.
C2_Witness ==
    /\ ops = 2
    /\ call.op = "record_no_subtitles_found"
    /\ call.t > 0
    /\ DOMAIN data = {_get_movie_key(call.title)}
    /\ Len(data[_get_movie_key(call.title)]) = 1
    /\ CalledEntry = [NewEntry(call.language) EXCEPT
                          !.last_no_subtitles = isoformat(call.t)]

\* C5: when the record of the pair carries a success timestamp,
\* should_skip_search returns False whatever the threshold and the other
\* timestamps are.
C5_SuccessClearsSkip ==
    (/\ call.op = "should_skip_search"
     /\ Truthy(CalledEntry.last_download_success))
        => /\ call.ret = FALSE
           /\ call.exc = "none"

\* C5 witness: a success is recorded next to a no-subtitles timestamp that
\* lies within the threshold, and should_skip_search was asked.
C5_Witness ==
    /\ call.op = "should_skip_search"
    /\ Truthy(CalledEntry.last_download_success)
    /\ CalledEntry.last_no_subtitles.k = "iso"
    /\ WithinThreshold(CalledEntry.last_no_subtitles)
    /\ call.ret = FALSE

Malformed(v) == v.k \in {"str", "num"}

\* C6: should_skip_search returns False and raises nothing when the pair has
\* no record, when the record has no failure/search timestamp, or when the
\* stored timestamp is malformed.
C6_NoRecordOrMalformedNeverSkips ==
    (/\ call.op = "should_skip_search"
     /\ \/ ~HasCalledEntry
        \/ ~Truthy(CalledEntry.last_no_subtitles)
        \/ Malformed(CalledEntry.last_no_subtitles))
        => /\ call.ret = FALSE
           /\ call.exc = "none"

\* ------------------------------------- get_subtitle_for_movie / _episode
\* lang_name.lower()
LangLower(name) ==
    CASE name = "English" -> "english"
      [] name = "Spanish" -> "spanish"
      [] OTHER            -> name

\* missing_subtitles of the wanted item: one language, two languages, and
\* the same language name twice (the media service lists a language once per
\* variant it misses)
LangRequests ==
    { <<"English">>, <<"English", "Spanish">>, <<"English", "English">> }

\* _search_interval_hours as reported by the media service
SearchIntervals == { 1 }

WantedMedia ==
    { [kind |-> "movie", title |-> <<" ", "H">>, season |-> "", episode_number |-> ""],
      [kind |-> "episode", title |-> <<"h">>, season |-> "1", episode_number |-> "1"] }

\* f"{series_title}:S{season}E{episode_number}"
EpisodeKey(m) == m.title \o <<":", "S", m.season, "E", m.episode_number>>

\* The title under which get_subtitle_for_movie / get_subtitle_for_episode
\* asks and writes the ledger.
Subject(m) == IF m.kind = "movie" THEN m.title ELSE EpisodeKey(m)

\* The title under which search_subtitles / search_episode_subtitles record
\* a search that found nothing.
SearchSubject(m) == IF m.kind = "movie" THEN m.title ELSE EpisodeKey(m)

\* What search_subtitles / search_episode_subtitles can come back with: a
\* non-empty list, an empty list (recorded in the ledger), or an exception
\* that none of its handlers catches.
SearchOutcomes == { "found", "empty", "raise" }

\* What download_subtitle meets in a run of the loop.
LoopCatalogs ==
    [token : {"token", "missing", "bad_shape"}, archive : {"ok"},
     content_type : {<<"application/zip">>},
     body : {Archive(<<[name |-> <<"a", ".srt">>, size |-> 10]>>)},
     fault : {"none"}]

BestResult == [id |-> "12345", subtitle_link |-> "lnk"]

\* One entry of the account of a call: what was done for the language at
\* position i, the answer should_skip_search gave for it, and what the
\* ledger held for the pair when it was asked.
Event(i, ev, skip, entry) ==
    [i |-> i, ev |-> ev, t |-> now, should_skip |-> skip,
     last_download_failure |-> entry.last_download_failure,
     last_download_success |-> entry.last_download_success]

\* The ledger record of the pair the loop is about to decide on.
PairEntry(d, title, language) ==
    LET entries == Entries(d, _get_movie_key(title))
        i == FindEntry(entries, language)
    IN  IF i = 0 THEN NewEntry(language) ELSE entries[i]

\* variant: the loop goes on to search after counting a skip
AfterSkipDecision_searching(skip, search) == search

\* What the loop body does once should_skip_search has answered: "skip"
\* (count and continue) or the outcome of the search it then makes.
AfterSkipDecision(skip, search) == IF skip THEN "skip" ELSE search

GetSubtitleStart ==
    \E m \in WantedMedia, subs \in LangRequests, hours \in SearchIntervals :
        /\ pc \in {"idle", "returned"}
        /\ runs < MaxRuns
        /\ media \in {NoMedia, m}
        /\ search_interval \in {0, hours}
        /\ media' = m
        /\ search_interval' = hours
        /\ missing_subs' = subs
        /\ pc' = "loop"
        /\ idx' = 1
        /\ skipped_count' = 0
        /\ downloaded_files' = <<>>
        /\ plog' = <<>>
        /\ runs' = runs + 1
        /\ UNCHANGED <<trackerVars, downloadVars>>

\* One pass of "for sub in missing_subs".
ProcessLanguage ==
    \E search \in SearchOutcomes, c \in LoopCatalogs :
        LET language == LangLower(missing_subs[idx])
            entry == PairEntry(data, Subject(media), language)
            skip == should_skip_search(data, Subject(media), language,
                                       2 * search_interval, now)
            todo == AfterSkipDecision(skip.ret, search)
            dl == download_subtitle(BestResult, c, download_dir)
            count == IF skip.ret THEN skipped_count + 1 ELSE skipped_count
        IN  /\ pc = "loop"
            /\ idx <= Len(missing_subs)
            /\ skip.exc = "none"
            /\ skipped_count' = count
            /\ CASE todo = "skip" ->
                      /\ plog' = Append(plog, Event(idx, "skip", skip.ret, entry))
                      /\ pc' = "loop"
                      /\ UNCHANGED <<data, disk, download_dir, downloaded_files>>
                 [] todo = "empty" ->
                      /\ plog' = Append(plog, Event(idx, "search", skip.ret, entry))
                      /\ data' = record_no_subtitles_found(
                                     data, SearchSubject(media), language, now)
                      /\ disk' = _save_tracking_data(disk, data', ioFault)
                      /\ pc' = "loop"
                      /\ UNCHANGED <<download_dir, downloaded_files>>
                 [] todo = "raise" ->
                      /\ plog' = Append(plog, Event(idx, "search", skip.ret, entry))
                      /\ pc' = "raised"
                      /\ UNCHANGED <<data, disk, download_dir, downloaded_files>>
                 [] OTHER ->
                      /\ plog' = plog \o <<Event(idx, "search", skip.ret, entry),
                                           Event(idx, "download", skip.ret, entry)>>
                      /\ download_dir' = dl.files
                      /\ IF dl.exc # "none"
                         THEN /\ pc' = "raised"
                              /\ UNCHANGED <<data, disk, downloaded_files>>
                         ELSE IF dl.ret # NoPath
                         THEN /\ pc' = "loop"
                              /\ downloaded_files' = Append(downloaded_files, dl.ret)
                              /\ UNCHANGED <<data, disk>>
                         ELSE /\ pc' = "loop"
                              /\ data' = record_download_failure(
                                             data, Subject(media), language,
                                             "Download failed", now)
                              /\ disk' = _save_tracking_data(disk, data', ioFault)
                              /\ UNCHANGED downloaded_files
            /\ idx' = idx + 1
            /\ UNCHANGED <<now, ops, ioFault, call, subtitle_info, catalog,
                           result, dlpc, media, missing_subs, search_interval,
                           runs>>

\* return downloaded_files, skipped_count
GetSubtitleReturn ==
    /\ pc = "loop"
    /\ idx > Len(missing_subs)
    /\ pc' = "returned"
    /\ UNCHANGED <<trackerVars, downloadVars, media, missing_subs, idx,
                   skipped_count, downloaded_files, plog, search_interval, runs>>

\* A call lasts far less than one tick: the clock moves between calls.
PipelineTick ==
    /\ pc \in {"idle", "returned", "raised"}
    /\ Tick
    /\ UNCHANGED <<downloadVars, pipelineVars>>

PipelineInit ==
    /\ TrackerInit
    /\ DownloadIdle
    /\ PipelineIdle

PipelineNext ==
    \/ PipelineTick
    \/ GetSubtitleStart
    \/ ProcessLanguage
    \/ GetSubtitleReturn

SpecPipeline == PipelineInit /\ [][PipelineNext]_vars

\* ==================================================== download properties
FullLog == <<"token_request", "archive_request", "write_zip", "extract",
             "remove_zip">>

IsPrefix(a, b) == Len(a) <= Len(b) /\ a = SubSeq(b, 1, Len(a))

Count(log, ev) == Cardinality({ i \in 1..Len(log) : log[i] = ev })

Returned == dlpc \in {"returned", "raised"}

\* C7: download_subtitle makes at most one token request and at most one
\* archive request, in the order token, archive, extract; without a subtitle
\* link or without a token in the detail response it returns None and no
\* archive is requested, written or extracted.
C7_OneTokenOneArchiveInOrder ==
    Returned =>
        /\ Count(result.log, "token_request") <= 1
        /\ Count(result.log, "archive_request") <= 1
        /\ IsPrefix(result.log, FullLog)
        /\ (subtitle_info.subtitle_link = "" \/ catalog.token = "missing") =>
              /\ dlpc = "returned"
              /\ result.ret = NoPath
              /\ Count(result.log, "archive_request") = 0
              /\ Count(result.log, "write_zip") = 0
              /\ Count(result.log, "extract") = 0
              /\ download_dir = NoFiles

\* C7 witness: a candidate with a link whose detail response has no token;
\* the call made the token request and stopped there.
C7_Witness ==
    /\ dlpc = "returned"
    /\ subtitle_info.subtitle_link # ""
    /\ catalog.token = "missing"
    /\ catalog.archive = "ok"
    /\ result.log = <<"token_request">>
    /\ result.ret = NoPath

\* The header values that declare an HTML page.
DeclaresHtml(content_type) ==
    content_type \in { <<"text/html">>, <<"TEXT/HTML">>,
                       <<"text/html", "; charset=utf-8">> }

HasSubtitle(body) ==
    /\ body.k = "zip"
    /\ \E i \in 1..Len(body.entries) :
          body.entries[i].name \in { <<"a", ".srt">>, <<"sub/", "a", ".SRT">>,
                                     <<"d", ".ass">> }

\* C8: when the archive response declares text/html, download_subtitle
\* returns None and writes neither an archive nor a subtitle file, whatever
\* the body is.
C8_HtmlResponseWritesNothing ==
    (/\ Returned
     /\ subtitle_info.subtitle_link # ""
     /\ catalog.token = "token"
     /\ catalog.archive = "ok"
     /\ DeclaresHtml(catalog.content_type))
        => /\ dlpc = "returned"
           /\ result.ret = NoPath
           /\ download_dir = NoFiles

\* C8 witness: the header is TEXT/HTML, the body is a sound archive holding
\* a subtitle and no file operation fails; the call returned None.
C8_Witness ==
    /\ dlpc = "returned"
    /\ subtitle_info.subtitle_link # ""
    /\ catalog.token = "token"
    /\ catalog.archive = "ok"
    /\ catalog.content_type = <<"TEXT/HTML">>
    /\ HasSubtitle(catalog.body)
    /\ catalog.fault = "none"
    /\ result.ret = NoPath
    /\ result.log = <<"token_request", "archive_request">>

\* The subtitle entries of the archive handed in.
SubtitleEntries ==
    { e \in { catalog.body.entries[i] : i \in 1..Len(catalog.body.entries) } :
        e.name \in { <<"a", ".srt">>, <<"sub/", "a", ".SRT">>, <<"d", ".ass">> } }

\* the entry name without its directory part
Flat(name) == IF name[1] = "sub/" THEN Tail(name) ELSE name

\* C9: _extract_subtitle_from_zip looks only at entries with a subtitle
\* extension (any letter case): with none it returns None; otherwise it
\* returns a file holding the contents of a subtitle entry of greatest
\* stored size (the only one when there is one).
C9_LargestSubtitleExtracted ==
    (/\ dlpc = "returned"
     /\ catalog.body.k = "zip"
     /\ catalog.fault = "none")
        => IF SubtitleEntries = {}
           THEN result.ret = NoPath
           ELSE \E e \in SubtitleEntries :
                   /\ \A f \in SubtitleEntries : f.size <= e.size
                   /\ result.ret = Flat(e.name)
                   /\ result.ret \in DOMAIN download_dir
                   /\ download_dir[result.ret] = EntryBytes(e)

\* C9 witness: three entries, a large file that is no subtitle first, then a
\* small subtitle, then a larger subtitle in upper case inside a directory;
\* the call returned the last one.
C9_Witness ==
    /\ dlpc = "returned"
    /\ catalog.fault = "none"
    /\ catalog.body = Archive(<<[name |-> <<"c", ".txt">>, size |-> 100],
                                [name |-> <<"a", ".srt">>, size |-> 10],
                                [name |-> <<"sub/", "a", ".SRT">>, size |-> 100]>>)
    /\ result.ret = <<"a", ".SRT">>

\* C10: whenever download_subtitle returns, on the success path and on every
\* failure path, no temporary archive it created remains in the download
\* directory.
C10_NoTempArchiveRemains ==
    dlpc = "returned" => ZipPath \notin DOMAIN download_dir

\* ==================================================== pipeline properties
\* The entries of the account that settle a language: skipped or searched.
Decisions == { k \in 1..Len(plog) : plog[k].ev \in {"skip", "search"} }

\* The language at position i was not requested earlier in the same call, so
\* whatever the ledger holds for it was written by an earlier call.
FirstRequest(i) == \A j \in 1..(i - 1) : missing_subs[j] # missing_subs[i]

WithinInterval(stamp, t) ==
    (t - stamp.t) * TickSeconds < search_interval * SecondsPerHour

\* C3: retry of a failed download is governed by the throttle: when an
\* earlier call recorded a download failure for the subject and language and
\* less than the search interval has passed since, the next call skips that
\* language instead of searching and downloading again.
C3_FailedDownloadThrottled ==
    \A k \in Decisions :
        (/\ FirstRequest(plog[k].i)
         /\ plog[k].last_download_failure.k = "iso"
         /\ ~Truthy(plog[k].last_download_success)
         /\ WithinInterval(plog[k].last_download_failure, plog[k].t))
            => /\ plog[k].should_skip
               /\ plog[k].ev = "skip"

\* C4: in get_subtitle_for_movie / get_subtitle_for_episode a language for
\* which should_skip_search answered True is neither searched nor
\* downloaded; every requested language is skipped or searched exactly once,
\* in request order; and the skipped count returned is the number of
\* languages should_skip_search answered True for.
C4_SkippedLanguagesNotSearched ==
    /\ \A k \in 1..Len(plog) : plog[k].should_skip <=> plog[k].ev = "skip"
    /\ \A k, l \in 1..Len(plog) : k < l => plog[k].i <= plog[l].i
    /\ \A k, l \in Decisions : k # l => plog[k].i # plog[l].i
    /\ \A k \in 1..Len(plog) :
          plog[k].ev = "download" =>
              /\ k > 1
              /\ plog[k - 1].ev = "search"
              /\ plog[k - 1].i = plog[k].i
    /\ pc = "loop" => { plog[k].i : k \in Decisions } = 1..(idx - 1)
    /\ pc = "returned" =>
          /\ { plog[k].i : k \in Decisions } = 1..Len(missing_subs)
          /\ skipped_count =
                Cardinality({ k \in 1..Len(plog) : plog[k].should_skip })

\* C4 witness: a call for two languages returned after skipping the first
\* (an earlier call found nothing for it) and searching and downloading the
\* second; it reports one skipped language and one file.
C4_Witness ==
    /\ pc = "returned"
    /\ runs = 2
    /\ missing_subs = <<"English", "Spanish">>
    /\ Len(plog) = 3
    /\ plog[1].ev = "skip" /\ plog[1].i = 1 /\ plog[1].should_skip
    /\ plog[2].ev = "search" /\ plog[2].i = 2
    /\ plog[3].ev = "download" /\ plog[3].i = 2
    /\ skipped_count = 1
    /\ Len(downloaded_files) = 1

\* =============================================== api/subsource.py: search
\* What the catalog answers to one request: an HTTP failure, a body that is
\* no JSON, a JSON value of the wrong type, or a JSON document.
HttpError == [k |-> "http_error", items |-> <<>>]
BadJson == [k |-> "bad_json", items |-> <<>>]
NotADict == [k |-> "not_dict", items |-> <<>>]
JsonDict(items) == [k |-> "dict", items |-> items]
JsonList(items) == [k |-> "list", items |-> items]

\* an element of a result list that is no JSON object
NonDict == [k |-> "str"]
IsDict(x) == x.k = "dict"

Movie(releaseYear, link) ==
    [k |-> "dict", releaseYear |-> releaseYear, link |-> link]
Subtitle(id, link) == [k |-> "dict", id |-> id, link |-> link]

NoMovie == [k |-> "none", releaseYear |-> 0, link |-> ""]

\* for movie in search_results: ... if movie_year == year: break
\* The position the loop stops at: the first element that is no object (its
\* .get raises) or whose year is the requested one; 0 when it runs through.
RECURSIVE YearLoopStop(_, _, _)
YearLoopStop(search_results, year, i) ==
    IF i > Len(search_results) THEN 0
    ELSE IF ~IsDict(search_results[i]) THEN i
    ELSE IF search_results[i].releaseYear = year THEN i
    ELSE YearLoopStop(search_results, year, i + 1)

\* variant: the first result is taken whatever its year
BestMovieFirst(search_results, year) ==
    IF search_results = <<>> THEN NoMovie ELSE search_results[1]

\* best_movie after the year loop and the first-result fallback
BestMovie(search_results, year) ==
    LET i == YearLoopStop(search_results, year, 1)
    IN  IF i # 0 THEN search_results[i]
        ELSE IF search_results # <<>> THEN search_results[1]
        ELSE NoMovie

SearchResult(ret, exc, log, listing, d) ==
    [ret |-> ret, exc |-> exc, log |-> log, listing |-> listing, data |-> d]

\* formatted_subtitles
FormatSubtitles(subtitles, movie_link) ==
    [i \in 1..Len(subtitles) |->
        [id |-> subtitles[i].id, subtitle_link |-> subtitles[i].link,
         movie_link |-> movie_link]]

\* variant: a failed title search is not recorded in the ledger
search_subtitles_unrecorded_failure(title, year, language, env, d, t) ==
    LET none == record_no_subtitles_found(d, title, language, t)
        log1 == <<"search_request">>
        log2 == Append(log1, "delay")
        results == env.search.items
        stop == YearLoopStop(results, year, 1)
        best_movie == BestMovie(results, year)
        log3 == Append(log2, "listing_request")
        log4 == Append(log3, "delay")
        subtitles == env.listing.items
    IN  IF env.search.k = "http_error" THEN SearchResult(<<>>, "none", log1, "", d)
        ELSE IF env.search.k = "bad_json" THEN SearchResult(<<>>, "none", log2, "", none)
        ELSE IF env.search.k # "dict" THEN SearchResult(<<>>, "AttributeError", log2, "", d)
        ELSE IF stop # 0 /\ ~IsDict(results[stop])
             THEN SearchResult(<<>>, "AttributeError", log2, "", d)
        ELSE IF best_movie = NoMovie THEN SearchResult(<<>>, "none", log2, "", none)
        ELSE IF best_movie.link = "" THEN SearchResult(<<>>, "none", log2, "", none)
        ELSE IF env.listing.k = "http_error"
             THEN SearchResult(<<>>, "none", log3, best_movie.link, none)
        ELSE IF env.listing.k = "bad_json"
             THEN SearchResult(<<>>, "none", log4, best_movie.link, none)
        ELSE IF env.listing.k = "not_dict"
             THEN SearchResult(<<>>, "AttributeError", log4, best_movie.link, d)
        ELSE IF \E i \in 1..Len(subtitles) : ~IsDict(subtitles[i])
             THEN SearchResult(<<>>, "AttributeError", log4, best_movie.link, d)
        ELSE IF subtitles = <<>>
             THEN SearchResult(<<>>, "none", log4, best_movie.link, none)
        ELSE SearchResult(FormatSubtitles(subtitles, best_movie.link), "none",
                          log4, best_movie.link, d)

\* search_subtitles.  env.search and env.listing are the catalog's answers
\* to the title search and to the subtitle listing; log lists the requests
\* and the delays, listing is the link whose subtitles were requested.
search_subtitles(title, year, language, env, d, t) ==
    LET none == record_no_subtitles_found(d, title, language, t)
        log1 == <<"search_request">>
        log2 == Append(log1, "delay")
        results == env.search.items
        stop == YearLoopStop(results, year, 1)
        best_movie == BestMovie(results, year)
        log3 == Append(log2, "listing_request")
        log4 == Append(log3, "delay")
        subtitles == env.listing.items
    IN  IF env.search.k = "http_error" THEN SearchResult(<<>>, "none", log1, "", none)
        ELSE IF env.search.k = "bad_json" THEN SearchResult(<<>>, "none", log2, "", none)
        ELSE IF env.search.k # "dict" THEN SearchResult(<<>>, "AttributeError", log2, "", d)
        ELSE IF stop # 0 /\ ~IsDict(results[stop])
             THEN SearchResult(<<>>, "AttributeError", log2, "", d)
        ELSE IF best_movie = NoMovie THEN SearchResult(<<>>, "none", log2, "", none)
        ELSE IF best_movie.link = "" THEN SearchResult(<<>>, "none", log2, "", none)
        ELSE IF env.listing.k = "http_error"
             THEN SearchResult(<<>>, "none", log3, best_movie.link, none)
        ELSE IF env.listing.k = "bad_json"
             THEN SearchResult(<<>>, "none", log4, best_movie.link, none)
        ELSE IF env.listing.k = "not_dict"
             THEN SearchResult(<<>>, "AttributeError", log4, best_movie.link, d)
        ELSE IF \E i \in 1..Len(subtitles) : ~IsDict(subtitles[i])
             THEN SearchResult(<<>>, "AttributeError", log4, best_movie.link, d)
        ELSE IF subtitles = <<>>
             THEN SearchResult(<<>>, "none", log4, best_movie.link, none)
        ELSE SearchResult(FormatSubtitles(subtitles, best_movie.link), "none",
                          log4, best_movie.link, d)

\* ------------------------------------------------- episode identification
\* Release texts are sequences of characters.
ReleaseChars == { "S", "e", "x", "0", "1" }

\* \d
IsDigit(c) == c \in { "0", "1", "2", "3", "4", "5", "6", "7", "8", "9" }

DigitValue(c) ==
    CASE c = "0" -> 0 [] c = "1" -> 1 [] c = "2" -> 2 [] c = "3" -> 3
      [] c = "4" -> 4 [] c = "5" -> 5 [] c = "6" -> 6 [] c = "7" -> 7
      [] c = "8" -> 8 [] OTHER -> 9

\* int(group): the value of a run of decimal digits
RECURSIVE ToInt(_)
ToInt(digits) ==
    IF digits = <<>> THEN 0
    ELSE 10 * ToInt(SubSeq(digits, 1, Len(digits) - 1))
         + DigitValue(digits[Len(digits)])

\* Python's None where a number is expected
NoNumber == -1

\* (\d+) is greedy: the last position of the run of digits that starts at i
RECURSIVE RunEnd(_, _)
RunEnd(s, i) ==
    IF i + 1 <= Len(s) /\ IsDigit(s[i + 1]) THEN RunEnd(s, i + 1) ELSE i

DigitAt(s, i) == i >= 1 /\ i <= Len(s) /\ IsDigit(s[i])
CharAt(s, i, set) == i >= 1 /\ i <= Len(s) /\ s[i] \in set

\* [Ss](\d+)[Ee](\d+) matches at position i
MatchesSE(s, i) ==
    /\ CharAt(s, i, {"S", "s"})
    /\ DigitAt(s, i + 1)
    /\ CharAt(s, RunEnd(s, i + 1) + 1, {"E", "e"})
    /\ DigitAt(s, RunEnd(s, i + 1) + 2)

\* (\d+)x(\d+) matches at position i
MatchesX(s, i) ==
    /\ DigitAt(s, i)
    /\ CharAt(s, RunEnd(s, i) + 1, {"x"})
    /\ DigitAt(s, RunEnd(s, i) + 2)

\* variant: the standalone pattern accepts a capital E only
MatchesE_capital(s, i) ==
    /\ CharAt(s, i, {"E"})
    /\ DigitAt(s, i + 1)

\* [Ee](\d+) matches at position i
MatchesE(s, i) ==
    /\ CharAt(s, i, {"E", "e"})
    /\ DigitAt(s, i + 1)

\* re.search: the leftmost position a pattern matches at, 0 for no match
RECURSIVE SearchSE(_, _)
SearchSE(s, i) ==
    IF i > Len(s) THEN 0 ELSE IF MatchesSE(s, i) THEN i ELSE SearchSE(s, i + 1)

RECURSIVE SearchX(_, _)
SearchX(s, i) ==
    IF i > Len(s) THEN 0 ELSE IF MatchesX(s, i) THEN i ELSE SearchX(s, i + 1)

RECURSIVE SearchE(_, _)
SearchE(s, i) ==
    IF i > Len(s) THEN 0 ELSE IF MatchesE(s, i) THEN i ELSE SearchE(s, i + 1)

\* the digits of the run that starts at position i
Group(s, i) == SubSeq(s, i, RunEnd(s, i))

\* _extract_episode_info_from_subtitle: (season, episode)
_extract_episode_info_from_subtitle(release_info) ==
    LET se == SearchSE(release_info, 1)
        x == SearchX(release_info, 1)
        e == SearchE(release_info, 1)
    IN  IF se # 0
        THEN <<ToInt(Group(release_info, se + 1)),
               ToInt(Group(release_info, RunEnd(release_info, se + 1) + 2))>>
        ELSE IF x # 0
        THEN <<ToInt(Group(release_info, x)),
               ToInt(Group(release_info, RunEnd(release_info, x) + 2))>>
        ELSE IF e # 0
        THEN <<NoNumber, ToInt(Group(release_info, e + 1))>>
        ELSE <<NoNumber, NoNumber>>

\* TVShowSubSourceDownloader._extract_episode_info_from_subtitle: the same
\* without the standalone E pattern
tv_extract_episode_info_from_subtitle(release_info) ==
    LET se == SearchSE(release_info, 1)
        x == SearchX(release_info, 1)
    IN  IF se # 0
        THEN <<ToInt(Group(release_info, se + 1)),
               ToInt(Group(release_info, RunEnd(release_info, se + 1) + 2))>>
        ELSE IF x # 0
        THEN <<ToInt(Group(release_info, x)),
               ToInt(Group(release_info, RunEnd(release_info, x) + 2))>>
        ELSE <<NoNumber, NoNumber>>

\* Python truth of an optional number: None and 0 are false
TruthyNumber(n) == n # NoNumber /\ n # 0

\* _is_subtitle_match.  target_episode carries season, episode_number and
\* episode, each a number or NoNumber.
_is_subtitle_match(release_info, target_episode) ==
    LET target_season == target_episode.season
        target_episode_num ==
            IF TruthyNumber(target_episode.episode_number)
            THEN target_episode.episode_number ELSE target_episode.episode
        sub == _extract_episode_info_from_subtitle(release_info)
    IN  IF ~TruthyNumber(target_season) \/ ~TruthyNumber(target_episode_num)
        THEN FALSE
        ELSE IF sub[1] # NoNumber /\ sub[2] # NoNumber
        THEN sub[1] = target_season /\ sub[2] = target_episode_num
        ELSE IF sub[2] # NoNumber THEN sub[2] = target_episode_num
        ELSE FALSE

\* ------------------------------------------------------ series selection
\* str.lower() of a title or type, character by character
title_lower(s) == [i \in 1..Len(s) |-> lower(s[i])]

\* a in b for strings: a occurs in b as a contiguous run
Contains(b, a) ==
    \E i \in 0..(Len(b) - Len(a)) : SubSeq(b, i + 1, i + Len(a)) = a

tvseries == <<"t", "v", "s", "e", "r", "i", "e", "s">>

Season(season, link, releaseYear) ==
    [season |-> season, link |-> link, releaseYear |-> releaseYear]

Series(type, title, releaseYear, seasons) ==
    [k |-> "dict", type |-> type, title |-> title,
     releaseYear |-> releaseYear, seasons |-> seasons]

NoSeries == [k |-> "none", type |-> <<>>, title |-> <<>>,
             releaseYear |-> NoNumber, seasons |-> <<>>]

\* _has_season
_has_season(series, season) ==
    \E i \in 1..Len(series.seasons) : series.seasons[i].season = season

\* series_candidates: the results of type tvseries whose title contains the
\* target title, both compared in lower case
IsCandidate(r, series_title) ==
    /\ title_lower(r.type) = tvseries
    /\ Contains(title_lower(r.title), title_lower(series_title))

\* "for candidate in ...: if self._has_season(candidate, season): return
\* candidate" followed by "return ...[0]"
FirstWithSeason(list, season) ==
    IF \E i \in 1..Len(list) : _has_season(list[i], season)
    THEN list[CHOOSE i \in 1..Len(list) :
                 /\ _has_season(list[i], season)
                 /\ \A j \in 1..(i - 1) : ~_has_season(list[j], season)]
    ELSE list[1]

\* variant: the year filter is skipped
_find_best_series_match_no_year(search_results, series_title, series_year, season) ==
    LET series_candidates ==
            SelectSeq(search_results, LAMBDA r : IsCandidate(r, series_title))
    IN  IF series_candidates = <<>> THEN NoSeries
        ELSE FirstWithSeason(series_candidates, season)

\* _find_best_series_match, for results that are JSON objects
_find_best_series_match(search_results, series_title, series_year, season) ==
    LET series_candidates ==
            SelectSeq(search_results, LAMBDA r : IsCandidate(r, series_title))
        year_matches ==
            SelectSeq(series_candidates, LAMBDA c : c.releaseYear = series_year)
    IN  IF series_candidates = <<>> THEN NoSeries
        ELSE IF Len(series_candidates) = 1 THEN series_candidates[1]
        ELSE IF TruthyNumber(series_year) /\ year_matches # <<>>
             THEN IF Len(year_matches) = 1 THEN year_matches[1]
                  ELSE FirstWithSeason(year_matches, season)
        ELSE FirstWithSeason(series_candidates, season)

\* link.replace("=", "-")
replace_equals(link) ==
    [i \in 1..Len(link) |-> IF link[i] = "=" THEN "-" ELSE link[i]]

NoLink == <<>>

LinkResult(ret, exc) == [ret |-> ret, exc |-> exc]

\* "for season_data in seasons" of the exact-match rule, from position i on:
\* int() of a missing season number raises TypeError
RECURSIVE ExactSeasonLoop(_, _, _)
ExactSeasonLoop(seasons, season, i) ==
    IF i > Len(seasons) THEN LinkResult(NoLink, "none")
    ELSE IF seasons[i].season = NoNumber THEN LinkResult(NoLink, "TypeError")
    ELSE IF seasons[i].season = season /\ seasons[i].link # NoLink
         THEN LinkResult(seasons[i].link, "none")
    ELSE ExactSeasonLoop(seasons, season, i + 1)

\* abs(season_year - series_year) <= 1
WithinOneYear(season_year, series_year) ==
    season_year - series_year <= 1 /\ series_year - season_year <= 1

YearSeason(series, s) ==
    /\ TruthyNumber(s.releaseYear)
    /\ WithinOneYear(s.releaseYear, series.releaseYear)
    /\ s.link # NoLink

\* the first season the release-year rule accepts
FirstYearSeason(series) ==
    series.seasons[CHOOSE i \in 1..Len(series.seasons) :
        /\ YearSeason(series, series.seasons[i])
        /\ \A j \in 1..(i - 1) : ~YearSeason(series, series.seasons[j])]

\* variant: the only listed season is not used when its number differs
_get_season_link_exact_only(series, season) ==
    LET seasons == series.seasons
        exact == ExactSeasonLoop(seasons, season, 1)
    IN  IF seasons = <<>> THEN LinkResult(NoLink, "none")
        ELSE IF exact.exc # "none" THEN exact
        ELSE IF exact.ret # NoLink THEN LinkResult(replace_equals(exact.ret), "none")
        ELSE IF TruthyNumber(series.releaseYear)
                /\ \E i \in 1..Len(seasons) : YearSeason(series, seasons[i])
             THEN LinkResult(replace_equals(FirstYearSeason(series).link), "none")
        ELSE LinkResult(NoLink, "none")

\* _get_season_link
_get_season_link(series, season) ==
    LET seasons == series.seasons
        exact == ExactSeasonLoop(seasons, season, 1)
    IN  IF seasons = <<>> THEN LinkResult(NoLink, "none")
        ELSE IF exact.exc # "none" THEN exact
        ELSE IF exact.ret # NoLink THEN LinkResult(replace_equals(exact.ret), "none")
        ELSE IF Len(seasons) = 1 /\ seasons[1].link # NoLink
             THEN LinkResult(replace_equals(seasons[1].link), "none")
        ELSE IF TruthyNumber(series.releaseYear)
                /\ \E i \in 1..Len(seasons) : YearSeason(series, seasons[i])
             THEN LinkResult(replace_equals(FirstYearSeason(series).link), "none")
        ELSE LinkResult(NoLink, "none")

\* ------------------------------------------- calls of the episode helpers
\* Release texts of n characters.
ReleaseTexts(n) == [1..n -> ReleaseChars]

\* the release texts _is_subtitle_match is tried on
ReleaseSamples ==
    { <<"S", "1", "e", "1">>, <<"S", "0", "e", "1">>, <<"S", "1", "e", "0">>,
      <<"1", "x", "1">>, <<"0", "x", "1">>, <<"e", "1">>, <<"e", "0">>,
      <<"x">> }

\* target episodes: season, episode_number and episode are absent, 0 or 1
TargetEpisodes ==
    [season : {NoNumber, 0, 1}, episode_number : {NoNumber, 0, 1},
     episode : {NoNumber, 1}]

SeriesTypes == { <<"t", "v", "S", "e", "r", "i", "E", "s">>, <<"m">> }
SeriesTitles == { <<"H">>, <<"h", "2">>, <<"x">> }
SeriesYears == { 2008, 2009 }
TargetYears == { NoNumber, 0, 2008 }
SeasonLinks == { NoLink, <<"/", "a">>, <<"/", "b", "=", "1">> }

\* the season lists of the series _find_best_series_match chooses among
SeasonSamples ==
    { <<Season(1, <<"/", "a">>, 2008)>>, <<Season(2, <<"/", "a">>, 2008)>> }

SeriesPool ==
    { Series(type, title, year, seasons) :
        type \in SeriesTypes, title \in SeriesTitles, year \in SeriesYears,
        seasons \in SeasonSamples }

\* search results of n series of the pool
SeriesLists(n) == [1..n -> SeriesPool]

\* season entries with a number, as _get_season_link is given them
SeasonPool ==
    { Season(n, link, year) :
        n \in {1, 2}, link \in SeasonLinks, year \in {0, 2009, 2012} }

SeasonLists(n) == [1..n -> SeasonPool]

\* A call of one of the helpers: its arguments, and its result once made.
HelperCall(op) ==
    [op |-> op, release_info |-> <<>>, target_episode |-> <<>>,
     search_results |-> <<>>, series_title |-> <<>>, series_year |-> NoNumber,
     season |-> NoNumber, series |-> NoSeries, done |-> FALSE, ret |-> <<>>]

ExtractCalls ==
    { [HelperCall("_extract_episode_info_from_subtitle") EXCEPT
           !.release_info = release_info] :
        release_info \in UNION { ReleaseTexts(n) : n \in 0..MaxText } }

TvExtractCalls ==
    { [HelperCall("tv_extract_episode_info_from_subtitle") EXCEPT
           !.release_info = release_info] :
        release_info \in UNION { ReleaseTexts(n) : n \in 0..MaxText } }

MatchCalls ==
    { [HelperCall("_is_subtitle_match") EXCEPT
           !.release_info = x[1], !.target_episode = x[2]] :
        x \in ReleaseSamples \X TargetEpisodes }

SeriesMatchCalls ==
    { [HelperCall("_find_best_series_match") EXCEPT
           !.search_results = x[1], !.series_title = <<"h">>,
           !.series_year = x[2], !.season = 1] :
        x \in (UNION { SeriesLists(n) : n \in 0..MaxResults }) \X TargetYears }

SeasonLinkCalls ==
    { [HelperCall("_get_season_link") EXCEPT
           !.series = Series(tvseries, <<"h">>, x[2], x[1]), !.season = x[3]] :
        x \in (UNION { SeasonLists(n) : n \in 0..MaxSeasons })
                 \X {NoNumber, 2010} \X {1, 3} }

ExtractEpisodeInfo ==
    /\ call.op = "_extract_episode_info_from_subtitle"
    /\ ~call.done
    /\ call' = [call EXCEPT
                   !.done = TRUE,
                   !.ret = _extract_episode_info_from_subtitle(call.release_info)]
    /\ UNCHANGED <<data, disk, now, ops, ioFault, downloadVars, pipelineVars>>

TvExtractEpisodeInfo ==
    /\ call.op = "tv_extract_episode_info_from_subtitle"
    /\ ~call.done
    /\ call' = [call EXCEPT
                   !.done = TRUE,
                   !.ret = tv_extract_episode_info_from_subtitle(call.release_info)]
    /\ UNCHANGED <<data, disk, now, ops, ioFault, downloadVars, pipelineVars>>

IsSubtitleMatch ==
    /\ call.op = "_is_subtitle_match"
    /\ ~call.done
    /\ call' = [call EXCEPT
                   !.done = TRUE,
                   !.ret = _is_subtitle_match(call.release_info,
                                              call.target_episode)]
    /\ UNCHANGED <<data, disk, now, ops, ioFault, downloadVars, pipelineVars>>

FindBestSeriesMatch ==
    /\ call.op = "_find_best_series_match"
    /\ ~call.done
    /\ call' = [call EXCEPT
                   !.done = TRUE,
                   !.ret = _find_best_series_match(
                               call.search_results, call.series_title,
                               call.series_year, call.season)]
    /\ UNCHANGED <<data, disk, now, ops, ioFault, downloadVars, pipelineVars>>

GetSeasonLink ==
    /\ call.op = "_get_season_link"
    /\ ~call.done
    /\ call' = [call EXCEPT
                   !.done = TRUE,
                   !.ret = _get_season_link(call.series, call.season)]
    /\ UNCHANGED <<data, disk, now, ops, ioFault, downloadVars, pipelineVars>>

MatchInit ==
    /\ disk = FileAbsent
    /\ data = EmptyLedger
    /\ now = 0
    /\ ops = 0
    /\ ioFault = FALSE
    /\ \/ call \in ExtractCalls
       \/ call \in TvExtractCalls
       \/ call \in MatchCalls
       \/ call \in SeriesMatchCalls
       \/ call \in SeasonLinkCalls
    /\ DownloadIdle
    /\ PipelineIdle

MatchNext ==
    \/ ExtractEpisodeInfo
    \/ TvExtractEpisodeInfo
    \/ IsSubtitleMatch
    \/ FindBestSeriesMatch
    \/ GetSeasonLink

SpecMatch == MatchInit /\ [][MatchNext]_vars

\* ===================================================== matching properties
Made(op) == call.op = op /\ call.done

\* every character of s from position a to position b is a digit (a <= b)
AllDigits(s, a, b) ==
    /\ 1 <= a /\ a <= b /\ b <= Len(s)
    /\ \A i \in a..b : IsDigit(s[i])

Positions(s) == 1..Len(s)

\* s holds S<digits>E<digits> from position a: digits up to b, E, digits up to c
SEOccurs(s, a, b, c) ==
    /\ a \in Positions(s) /\ s[a] \in {"S", "s"}
    /\ AllDigits(s, a + 1, b)
    /\ b + 1 <= Len(s) /\ s[b + 1] \in {"E", "e"}
    /\ AllDigits(s, b + 2, c)

\* s holds <digits>x<digits> from position a
XOccurs(s, a, b, c) ==
    /\ AllDigits(s, a, b)
    /\ b + 1 <= Len(s) /\ s[b + 1] = "x"
    /\ AllDigits(s, b + 2, c)

\* s holds E<digits> from position a
EOccurs(s, a, c) ==
    /\ a \in Positions(s) /\ s[a] \in {"E", "e"}
    /\ AllDigits(s, a + 1, c)

\* c ends a run of digits: no digit follows it
EndsRun(s, c) == c = Len(s) \/ ~IsDigit(s[c + 1])

\* a pattern occurs in s from position a
SEStartsAt(s, a) ==
    /\ s[a] \in {"S", "s"}
    /\ \E b \in Positions(s) :
          AllDigits(s, a + 1, b) /\ \E c \in Positions(s) : SEOccurs(s, a, b, c)
XStartsAt(s, a) ==
    /\ IsDigit(s[a])
    /\ \E b \in Positions(s) :
          AllDigits(s, a, b) /\ \E c \in Positions(s) : XOccurs(s, a, b, c)
EStartsAt(s, a) ==
    /\ s[a] \in {"E", "e"}
    /\ \E c \in Positions(s) : EOccurs(s, a, c)

HoldsSE(s) == \E a \in Positions(s) : SEStartsAt(s, a)
HoldsX(s) == \E a \in Positions(s) : XStartsAt(s, a)
HoldsE(s) == \E a \in Positions(s) : EStartsAt(s, a)

\* ret holds the numbers of the first occurrence of a pattern, each taken
\* whole
YieldsSE(s, ret) ==
    \E a \in Positions(s) :
        /\ SEStartsAt(s, a)
        /\ \A before \in 1..(a - 1) : ~SEStartsAt(s, before)
        /\ \E b \in Positions(s) :
              /\ AllDigits(s, a + 1, b)
              /\ \E c \in Positions(s) :
                    /\ SEOccurs(s, a, b, c)
                    /\ EndsRun(s, c)
                    /\ ret = <<ToInt(SubSeq(s, a + 1, b)),
                               ToInt(SubSeq(s, b + 2, c))>>

YieldsX(s, ret) ==
    \E a \in Positions(s) :
        /\ XStartsAt(s, a)
        /\ \A before \in 1..(a - 1) : ~XStartsAt(s, before)
        /\ \E b \in Positions(s) :
              /\ AllDigits(s, a, b)
              /\ \E c \in Positions(s) :
                    /\ XOccurs(s, a, b, c)
                    /\ EndsRun(s, c)
                    /\ ret = <<ToInt(SubSeq(s, a, b)),
                               ToInt(SubSeq(s, b + 2, c))>>

YieldsE(s, ret) ==
    \E a \in Positions(s) :
        /\ EStartsAt(s, a)
        /\ \A before \in 1..(a - 1) : ~EStartsAt(s, before)
        /\ \E c \in Positions(s) :
              /\ EOccurs(s, a, c)
              /\ EndsRun(s, c)
              /\ ret = <<NoNumber, ToInt(SubSeq(s, a + 1, c))>>

\* C17: _extract_episode_info_from_subtitle applies its patterns in fixed
\* precedence: a text holding S<digits>E<digits> (any letter case) yields
\* that season and episode; otherwise one holding <digits>x<digits> yields
\* both; otherwise, in the SubSourceDownloader variant only, a standalone
\* E<digits> yields the episode with no season; a text with none of these
\* patterns yields (None, None).
C17_PatternPrecedence ==
    /\ Made("_extract_episode_info_from_subtitle") =>
          LET s == call.release_info
          IN  IF HoldsSE(s) THEN YieldsSE(s, call.ret)
              ELSE IF HoldsX(s) THEN YieldsX(s, call.ret)
              ELSE IF HoldsE(s) THEN YieldsE(s, call.ret)
              ELSE call.ret = <<NoNumber, NoNumber>>
    /\ Made("tv_extract_episode_info_from_subtitle") =>
          LET s == call.release_info
          IN  IF HoldsSE(s) THEN YieldsSE(s, call.ret)
              ELSE IF HoldsX(s) THEN YieldsX(s, call.ret)
              ELSE call.ret = <<NoNumber, NoNumber>>

\* C17 witness: the text S1e1x0 holds all three patterns; the S..E numbers
\* (1, 1) were returned, not the ..x.. numbers (1, 0).
C17_Witness ==
    /\ Made("_extract_episode_info_from_subtitle")
    /\ call.release_info = <<"S", "1", "e", "1", "x", "0">>
    /\ call.ret = <<1, 1>>

\* The episode value of a target: episode_number, or episode without one.
TargetEpisodeValue(t) ==
    IF t.episode_number # NoNumber THEN t.episode_number ELSE t.episode

\* C16: _is_subtitle_match returns True exactly when season and episode were
\* both extracted from the release text and both equal the target's, or when
\* only an episode was extracted and it equals the target's episode; a
\* target lacking a season or an episode value never matches, and a text
\* from which nothing is extracted never matches.
C16_MatchExactlyOnEqualNumbers ==
    Made("_is_subtitle_match") =>
        LET t == call.target_episode
            sub == _extract_episode_info_from_subtitle(call.release_info)
            lacking == t.season = NoNumber \/ TargetEpisodeValue(t) = NoNumber
        IN  call.ret <=>
                /\ ~lacking
                /\ \/ /\ sub[1] # NoNumber /\ sub[2] # NoNumber
                      /\ sub[1] = t.season /\ sub[2] = TargetEpisodeValue(t)
                   \/ /\ sub[1] = NoNumber /\ sub[2] # NoNumber
                      /\ sub[2] = TargetEpisodeValue(t)

\* ret is link with every "=" rewritten to "-"
Rewritten(link, ret) ==
    /\ Len(ret) = Len(link)
    /\ \A i \in 1..Len(link) : ret[i] = (IF link[i] = "=" THEN "-" ELSE link[i])

\* C15: _get_season_link applies its rules in order: the locator of the
\* season whose number is the target season; else the locator of the only
\* listed season; else, when the series has a release year, the locator of
\* a season whose own release year is within one year of it; else None.
\* Every returned locator has each "=" rewritten to "-".
C15_SeasonLinkRulesInOrder ==
    Made("_get_season_link") =>
        LET seasons == call.series.seasons
            year == call.series.releaseYear
            Located(i) == seasons[i].link # NoLink
            Exact(i) == seasons[i].season = call.season /\ Located(i)
            Near(i) == /\ seasons[i].releaseYear \notin {NoNumber, 0}
                       /\ seasons[i].releaseYear \in (year - 1)..(year + 1)
                       /\ Located(i)
            I == 1..Len(seasons)
        IN  /\ call.ret.exc = "none"
            /\ \A j \in 1..Len(call.ret.ret) : call.ret.ret[j] # "="
            /\ IF \E i \in I : Exact(i)
               THEN \E i \in I :
                       /\ Exact(i)
                       /\ \A j \in 1..(i - 1) : ~Exact(j)
                       /\ Rewritten(seasons[i].link, call.ret.ret)
               ELSE IF Len(seasons) = 1 /\ Located(1)
               THEN Rewritten(seasons[1].link, call.ret.ret)
               ELSE IF year \notin {NoNumber, 0} /\ \E i \in I : Near(i)
               THEN \E i \in I : Near(i) /\ Rewritten(seasons[i].link, call.ret.ret)
               ELSE call.ret.ret = NoLink

\* C15 witness: the series lists one season, numbered 2, and season 1 is
\* wanted; the locator of the listed season came back with "=" rewritten.
C15_Witness ==
    /\ Made("_get_season_link")
    /\ call.season = 1
    /\ call.series.seasons = <<Season(2, <<"/", "b", "=", "1">>, 0)>>
    /\ call.ret = LinkResult(<<"/", "b", "-", "1">>, "none")

\* C14: _find_best_series_match returns None exactly when no result is a
\* series whose title contains the target title; a sole candidate is
\* returned as it is; among several, with a target year that some match,
\* the only year match, else the first year match listing the target
\* season, else the first year match; with no target year or no year match
\* the first candidate listing the target season, else the first candidate.
C14_BestSeriesMatch ==
    Made("_find_best_series_match") =>
        LET cands == SelectSeq(call.search_results,
                               LAMBDA r : IsCandidate(r, call.series_title))
            byYear == SelectSeq(cands, LAMBDA c : c.releaseYear = call.series_year)
            Listing(l, i) == \E k \in 1..Len(l[i].seasons) :
                                 l[i].seasons[k].season = call.season
            FirstListing(l, x) ==
                IF \E i \in 1..Len(l) : Listing(l, i)
                THEN \E i \in 1..Len(l) :
                        /\ Listing(l, i)
                        /\ \A j \in 1..(i - 1) : ~Listing(l, j)
                        /\ x = l[i]
                ELSE x = l[1]
        IN  /\ (call.ret = NoSeries) <=> (cands = <<>>)
            /\ cands # <<>> => \E i \in 1..Len(cands) : call.ret = cands[i]
            /\ Len(cands) = 1 => call.ret = cands[1]
            /\ Len(cands) > 1 =>
                  IF call.series_year \notin {NoNumber, 0} /\ byYear # <<>>
                  THEN IF Len(byYear) = 1 THEN call.ret = byYear[1]
                       ELSE FirstListing(byYear, call.ret)
                  ELSE FirstListing(cands, call.ret)

\* C14 witness: two results, both series of the target year and title;
\* the first series lists season 2 only, the second lists the wanted
\* season 1 and was returned.
C14_Witness ==
    /\ Made("_find_best_series_match")
    /\ call.series_year = 2008
    /\ Len(call.search_results) = 2
    /\ call.search_results[1] =
           Series(<<"t", "v", "S", "e", "r", "i", "E", "s">>, <<"H">>, 2008,
                  <<Season(2, <<"/", "a">>, 2008)>>)
    /\ call.search_results[2] =
           Series(<<"t", "v", "S", "e", "r", "i", "E", "s">>, <<"h", "2">>, 2008,
                  <<Season(1, <<"/", "a">>, 2008)>>)
    /\ call.ret = call.search_results[2]

\* ================================== core/tracking.py: removal and eviction
\* remove_successful_download and cleanup_obsolete_movies are called by
\* run.py and exercised by tests/core/test_tracking.py; their bodies follow
\* the ledger contract (removeSuccessfulEntry, evictObsolete) and the tests.
LedgerResult(ret, d) == [ret |-> ret, d |-> d]

WithoutKey(d, key) == [k \in (DOMAIN d) \ {key} |-> d[k]]

OtherLanguages(entries, language) ==
    SelectSeq(entries, LAMBDA e : e.language # language)

\* variant: the key stays in the map with an empty list of records
remove_successful_download_keeping_key(d, title, language) ==
    LET key == collapse(rstrip(lstrip([i \in 1..Len(title) |-> lower(title[i])])))
        entries == IF key \in DOMAIN d THEN d[key] ELSE <<>>
    IN  IF \E i \in 1..Len(entries) : entries[i].language = language
        THEN [ret |-> TRUE,
              d |-> [d EXCEPT ![key] =
                        SelectSeq(entries, LAMBDA e : e.language # language)]]
        ELSE [ret |-> FALSE, d |-> d]

\* The year argument takes no part in the key.
remove_successful_download(d, title, language) ==
    LET key == _get_movie_key(title)
        entries == Entries(d, key)
        rest == OtherLanguages(entries, language)
    IN  IF FindEntry(entries, language) = 0
        THEN LedgerResult(FALSE, d)
        ELSE IF rest = <<>>
             THEN LedgerResult(TRUE, WithoutKey(d, key))
             ELSE LedgerResult(TRUE, [d EXCEPT ![key] = rest])

WantedKeys(current_wanted) ==
    { _get_movie_key(current_wanted[i]) : i \in 1..Len(current_wanted) }

\* An empty wanted list evicts nothing
\* (test_cleanup_obsolete_movies_empty_wanted_list).
cleanup_obsolete_movies(d, current_wanted) ==
    IF current_wanted = <<>>
    THEN LedgerResult(0, d)
    ELSE LET keep == (DOMAIN d) \cap WantedKeys(current_wanted)
         IN  LedgerResult(Cardinality((DOMAIN d) \ keep),
                          [k \in keep |-> d[k]])

\* ------------------------------------------------- calls of the ledger
LedgerTitles == Titles \cup { <<"b">> }

WantedLists ==
    { <<>>, << <<" ", "H">> >>, << <<"b">> >>, << <<"h">>, <<"b">> >> }

\* Ledgers left by earlier runs: none, one subject with two languages, two
\* subjects.
LedgerFiles ==
    { FileAbsent,
      FileDoc(<<"h">> :> <<NewEntry("english"), NewEntry("spanish")>>),
      FileDoc((<<"h">> :> <<NewEntry("english")>>)
                  @@ (<<"b">> :> <<NewEntry("spanish")>>)) }

LedgerCall(op, title, language, wanted, before, ret) ==
    [op |-> op, title |-> title, language |-> language, wanted |-> wanted,
     before |-> before, ret |-> ret]

RecordSearch ==
    \E title \in LedgerTitles, language \in Languages :
        /\ ops < MaxOps
        /\ data' = record_no_subtitles_found(data, title, language, now)
        /\ disk' = _save_tracking_data(disk, data', ioFault)
        /\ ops' = ops + 1
        /\ call' = LedgerCall("record_no_subtitles_found", title, language,
                              <<>>, data, TRUE)
        /\ UNCHANGED <<now, ioFault>>

RecordSuccess ==
    \E title \in LedgerTitles, language \in Languages :
        /\ ops < MaxOps
        /\ data' = record_download_success(data, title, language, "sub.srt", now)
        /\ disk' = _save_tracking_data(disk, data', ioFault)
        /\ ops' = ops + 1
        /\ call' = LedgerCall("record_download_success", title, language,
                              <<>>, data, TRUE)
        /\ UNCHANGED <<now, ioFault>>

RemoveSuccessfulDownload ==
    \E title \in LedgerTitles, language \in Languages :
        LET r == remove_successful_download(data, title, language)
        IN  /\ ops < MaxOps
            /\ data' = r.d
            /\ disk' = IF r.ret THEN _save_tracking_data(disk, data', ioFault)
                       ELSE disk
            /\ ops' = ops + 1
            /\ call' = LedgerCall("remove_successful_download", title,
                                  language, <<>>, data, r.ret)
            /\ UNCHANGED <<now, ioFault>>

CleanupObsoleteMovies ==
    \E current_wanted \in WantedLists :
        LET r == cleanup_obsolete_movies(data, current_wanted)
        IN  /\ ops < MaxOps
            /\ data' = r.d
            /\ disk' = IF r.ret > 0 THEN _save_tracking_data(disk, data', ioFault)
                       ELSE disk
            /\ ops' = ops + 1
            /\ call' = LedgerCall("cleanup_obsolete_movies", <<>>, "",
                                  current_wanted, data, r.ret)
            /\ UNCHANGED <<now, ioFault>>

\* A tracker constructed over the ledger file of an earlier run; the file
\* may or may not accept writes during this run.
LedgerInit ==
    /\ disk \in LedgerFiles
    /\ data = _load_tracking_data(disk)
    /\ now = 0
    /\ ops = 0
    /\ ioFault \in BOOLEAN
    /\ call = NoCall
    /\ DownloadIdle
    /\ PipelineIdle

LedgerNext ==
    /\ \/ RecordSearch
       \/ RecordSuccess
       \/ RemoveSuccessfulDownload
       \/ CleanupObsoleteMovies
    /\ UNCHANGED <<downloadVars, pipelineVars>>

SpecLedger == LedgerInit /\ [][LedgerNext]_vars

\* ------------------------------------------------------ ledger properties
RemovedKey == _get_movie_key(call.title)

HadRecord ==
    /\ RemovedKey \in DOMAIN call.before
    /\ \E i \in 1..Len(call.before[RemovedKey]) :
            call.before[RemovedKey][i].language = call.language

\* C18: remove_successful_download deletes exactly the record of the
\* (subject key, language), returns True, keeps the subject's records of the
\* other languages and every other subject, and deletes the subject key when
\* no record remains; without such a record it returns False and the ledger
\* is unchanged.
C18_RemoveExactlyTheRecord ==
    call.op = "remove_successful_download" =>
        IF HadRecord
        THEN LET rest == OtherLanguages(call.before[RemovedKey], call.language)
             IN  /\ call.ret = TRUE
                 /\ Len(rest) = Len(call.before[RemovedKey]) - 1
                 /\ (DOMAIN data) \ {RemovedKey}
                        = (DOMAIN call.before) \ {RemovedKey}
                 /\ \A k \in (DOMAIN data) \ {RemovedKey} :
                        data[k] = call.before[k]
                 /\ IF rest = <<>>
                    THEN RemovedKey \notin DOMAIN data
                    ELSE /\ RemovedKey \in DOMAIN data
                         /\ data[RemovedKey] = rest
        ELSE /\ call.ret = FALSE
             /\ data = call.before

C18_Witness ==
    /\ call.op = "remove_successful_download"
    /\ call.ret = TRUE
    /\ RemovedKey \notin DOMAIN data
    /\ data # EmptyLedger

\* C19: the cleanup removes every stored key absent from the wanted set,
\* removes none that is in it, and returns the number of keys removed.
C19_EvictsEveryAbsentKey ==
    call.op = "cleanup_obsolete_movies" =>
        /\ DOMAIN data = (DOMAIN call.before) \cap WantedKeys(call.wanted)
        /\ \A k \in DOMAIN data : data[k] = call.before[k]
        /\ call.ret = Cardinality((DOMAIN call.before) \ (DOMAIN data))

LedgerMutations ==
    { "record_no_subtitles_found", "record_download_success",
      "remove_successful_download", "cleanup_obsolete_movies" }

\* C20: after every completed ledger mutation the tracking file holds the
\* complete in-memory map, so a tracker constructed then loads the same
\* entries.
C20_PersistedEqualsMemory ==
    call.op \in LedgerMutations => _load_tracking_data(disk) = data

\* ===================================== api/subsource.py: episode search
\* str() of a number inside an f-string; None prints as "None"
StrNumber(n) ==
    IF n = NoNumber THEN "None"
    ELSE CHOOSE c \in {"0", "1", "2", "3", "4", "5", "6", "7", "8", "9"} :
            DigitValue(c) = n % 10

\* f"{series_title}:S{season}E{episode_number}"
episode_key(episode) ==
    episode.series_title
        \o <<":", "S", StrNumber(episode.season), "E",
             StrNumber(episode.episode_number)>>

EpisodeSubtitle(release_info) == [k |-> "dict", release_info |-> release_info]

TargetOf(episode) ==
    [season |-> episode.season, episode_number |-> episode.episode_number,
     episode |-> NoNumber]

\* _is_subtitle_match on an element of the listing: the target's numbers are
\* tested before the element is read
MatchRaises(subtitle, episode) ==
    /\ TruthyNumber(episode.season)
    /\ TruthyNumber(episode.episode_number)
    /\ ~IsDict(subtitle)

\* search_episode_subtitles.  The only except clause is for
\* requests.exceptions.RequestException (which response.json()'s decode error
\* is); anything else leaves the method.
search_episode_subtitles(episode, language, env, d, t) ==
    LET none == record_no_subtitles_found(d, episode_key(episode), language, t)
        log1 == <<"search_request">>
        log2 == Append(log1, "delay")
        log3 == log2 \o <<"delay", "listing_request">>
        results == env.search.items
        best_series == _find_best_series_match(results, episode.series_title,
                                               episode.seriesYear, episode.season)
        season_link == _get_season_link(best_series, episode.season)
        subtitles == env.listing.items
    IN  IF env.search.k = "http_error"
        THEN SearchResult(<<>>, "none", log1, NoLink, none)
        ELSE IF env.search.k = "bad_json"
        THEN SearchResult(<<>>, "none", log2, NoLink, none)
        ELSE IF env.search.k # "dict"
        THEN SearchResult(<<>>, "AttributeError", log2, NoLink, d)
        ELSE IF \E i \in 1..Len(results) : ~IsDict(results[i])
        THEN SearchResult(<<>>, "AttributeError", log2, NoLink, d)
        ELSE IF best_series = NoSeries
        THEN SearchResult(<<>>, "none", log2, NoLink, none)
        ELSE IF season_link.exc # "none"
        THEN SearchResult(<<>>, season_link.exc, log2, NoLink, d)
        ELSE IF season_link.ret = NoLink
        THEN SearchResult(<<>>, "none", log2, NoLink, none)
        ELSE IF env.listing.k \in {"http_error", "bad_json"}
        THEN SearchResult(<<>>, "none", log3, season_link.ret, none)
        ELSE IF env.listing.k = "not_dict"
        THEN SearchResult(<<>>, "AttributeError", log3, season_link.ret, d)
        ELSE IF \E i \in 1..Len(subtitles) : MatchRaises(subtitles[i], episode)
        THEN SearchResult(<<>>, "AttributeError", log3, season_link.ret, d)
        ELSE LET matching_subtitles ==
                    SelectSeq(subtitles, LAMBDA s :
                        _is_subtitle_match(s.release_info, TargetOf(episode)))
             IN  SearchResult(matching_subtitles, "none", log3, season_link.ret,
                              IF matching_subtitles = <<>> THEN none ELSE d)

\* ------------------------------------------------- calls of the searches
MovieYears == { 2014, 2015 }

MoviePool ==
    { Movie(2014, "/a"), Movie(2015, "/b"), Movie(2015, ""), NonDict }

MovieLists == UNION { [1..n -> MoviePool] : n \in 0..MaxResults }

SubtitleListings ==
    { HttpError, BadJson, NotADict, JsonList(<<>>),
      JsonList(<<Subtitle("1", "/s1")>>),
      JsonDict(<<Subtitle("1", "/s1"), NonDict>>) }

MovieAnswers ==
    {HttpError, BadJson, NotADict} \cup { JsonDict(l) : l \in MovieLists }

MovieSubjects ==
    { [kind |-> "movie", title |-> <<"h">>, year |-> y] : y \in MovieYears }

Episodes ==
    { [kind |-> "episode", series_title |-> <<"H">>, season |-> s,
       episode_number |-> 1, seriesYear |-> y] :
        s \in {0, 1}, y \in {NoNumber, 2008} }

FoundSeriesPool ==
    { Series(tvseries, <<"H">>, 2008, <<Season(1, <<"/", "a">>, 2008)>>),
      Series(tvseries, <<"H">>, 2009,
             <<Season(NoNumber, <<"/", "a">>, 2008),
               Season(1, <<"/", "b", "=", "1">>, 2009)>>),
      Series(<<"m">>, <<"H">>, 2008, <<Season(1, <<"/", "a">>, 2008)>>),
      NonDict }

FoundSeriesLists == UNION { [1..n -> FoundSeriesPool] : n \in 0..MaxResults }

SeriesAnswers ==
    {HttpError, BadJson, NotADict} \cup { JsonDict(l) : l \in FoundSeriesLists }

EpisodeListings ==
    { HttpError, NotADict, JsonList(<<>>),
      JsonList(<<EpisodeSubtitle(<<"S", "1", "e", "1">>),
                 EpisodeSubtitle(<<"1", "x", "0">>)>>),
      JsonDict(<<EpisodeSubtitle(<<"e", "1">>), NonDict>>) }

SearchSubtitles ==
    /\ dlpc = "ready"
    /\ media.kind = "movie"
    /\ result' = search_subtitles(media.title, media.year, "english", catalog,
                                  data, now)
    /\ data' = result'.data
    /\ disk' = _save_tracking_data(disk, data', ioFault)
    /\ dlpc' = IF result'.exc = "none" THEN "returned" ELSE "raised"
    /\ UNCHANGED <<now, ops, ioFault, call, subtitle_info, catalog,
                   download_dir, pipelineVars>>

SearchEpisodeSubtitles ==
    /\ dlpc = "ready"
    /\ media.kind = "episode"
    /\ result' = search_episode_subtitles(media, "english", catalog, data, now)
    /\ data' = result'.data
    /\ disk' = _save_tracking_data(disk, data', ioFault)
    /\ dlpc' = IF result'.exc = "none" THEN "returned" ELSE "raised"
    /\ UNCHANGED <<now, ops, ioFault, call, subtitle_info, catalog,
                   download_dir, pipelineVars>>

\* A downloader about to search the catalog for one movie or one episode.
SearchInit ==
    /\ TrackerIdle
    /\ subtitle_info = NoInfo
    /\ download_dir = NoFiles
    /\ result = NoResult
    /\ dlpc = "ready"
    /\ \/ /\ media \in MovieSubjects
          /\ catalog \in [search : MovieAnswers, listing : SubtitleListings]
       \/ /\ media \in Episodes
          /\ catalog \in [search : SeriesAnswers, listing : EpisodeListings]
    /\ missing_subs = <<>>
    /\ pc = "idle"
    /\ idx = 0
    /\ skipped_count = 0
    /\ downloaded_files = <<>>
    /\ plog = <<>>
    /\ search_interval = 0
    /\ runs = 0

SearchNext ==
    \/ SearchSubtitles
    \/ SearchEpisodeSubtitles

SpecSearch == SearchInit /\ [][SearchNext]_vars

\* ------------------------------------------------------ search properties
Searched(kind) == media.kind = kind /\ dlpc \in {"returned", "raised"}

\* C11: a search never lets an exception out: whatever the catalog answers,
\* the method returns (the empty list on a failure).
C11_SearchNeverRaises == dlpc # "raised"

FoundMovies == catalog.search.items

HasYear(i) == FoundMovies[i].releaseYear = media.year

\* the first result of the requested year, else the first result
ChosenMovie ==
    IF \E i \in 1..Len(FoundMovies) : HasYear(i)
    THEN FoundMovies[CHOOSE i \in 1..Len(FoundMovies) :
                        HasYear(i) /\ \A j \in 1..(i - 1) : ~HasYear(j)]
    ELSE FoundMovies[1]

ListingRequested == \E i \in 1..Len(result.log) : result.log[i] = "listing_request"

download_subtitle_calls(info, env) ==
    IF info.subtitle_link = "" THEN <<>>
    ELSE IF env.token = "http_error" THEN <<"token_request">>
    ELSE IF env.token # "token" THEN <<"token_request", "delay">>
    ELSE IF env.archive = "http_error"
    THEN <<"token_request", "delay", "archive_request">>
    ELSE <<"token_request", "delay", "archive_request", "delay">>

\* subtitle_info.get("id"), subtitle_info.get("subtitle_link", "")
InfoOf(subtitle) ==
    [id |-> IF "id" \in DOMAIN subtitle THEN subtitle.id ELSE "",
     subtitle_link |-> IF "subtitle_link" \in DOMAIN subtitle
                       THEN subtitle.subtitle_link ELSE ""]

\* The catalog's answers during one language of a subject: requests fail or
\* succeed, and every body is well formed.
ListedSubtitle ==
    [k |-> "dict", id |-> "1", link |-> "/s1",
     release_info |-> <<"S", "1", "e", "1">>]

CallAnswers(found) ==
    [search : {HttpError}, listing : {HttpError}, token : {"token"},
     archive : {"ok"}]
    \cup
    [search : { JsonDict(<<found>>) },
     listing : { HttpError, JsonList(<<>>), JsonList(<<ListedSubtitle>>) },
     token : {"token", "http_error"},
     archive : {"ok", "http_error"}]

MovieCallAnswers == CallAnswers(Movie(2014, "/a"))

EpisodeCallAnswers ==
    CallAnswers(Series(tvseries, <<"H">>, 2008,
                       <<Season(1, <<"/", "a">>, 2008)>>))

DownloadEnv(answers) ==
    [NoEnv EXCEPT !.token = answers.token, !.archive = answers.archive]

CallSubjects ==
    { [kind |-> "movie", title |-> <<"h">>, year |-> 2014],
      [kind |-> "episode", series_title |-> <<"H">>, season |-> 1,
       episode_number |-> 1, seriesYear |-> 2008] }

CallResult(calls, d, files) == [calls |-> calls, d |-> d, files |-> files]

\* The loop body after the skip decision and the search: the first result
\* is downloaded, a failed download is recorded, and closing holds the
\* sleep that ends the pass.
language_pass(skipped, s, title, language, answers, d, files, t, closing) ==
    LET info == InfoOf(s.ret[1])
        dl == download_subtitle(info, DownloadEnv(answers), files)
        calls == s.log \o download_subtitle_calls(info, DownloadEnv(answers))
                       \o closing
    IN  IF skipped THEN CallResult(<<>>, d, files)
        ELSE IF s.ret = <<>> THEN CallResult(s.log, s.data, files)
        ELSE IF dl.ret # NoPath THEN CallResult(calls, s.data, dl.files)
        ELSE CallResult(calls,
                        record_download_failure(s.data, title, language,
                                                "Download failed", t),
                        dl.files)

\* one pass of the loop of get_subtitle_for_movie, closed by time.sleep(0.5)
movie_language(movie, lang_name, answers, d, files, interval, t) ==
    language_pass(
        should_skip_search(d, movie.title, LangLower(lang_name), interval, t).ret,
        search_subtitles(movie.title, movie.year, LangLower(lang_name),
                         answers, d, t),
        movie.title, LangLower(lang_name), answers, d, files, t,
        <<"short_delay">>)

\* one pass of the loop of get_subtitle_for_episode: no sleep closes it
episode_language(episode, lang_name, answers, d, files, interval, t) ==
    language_pass(
        should_skip_search(d, episode_key(episode), LangLower(lang_name),
                           interval, t).ret,
        search_episode_subtitles(episode, LangLower(lang_name), answers, d, t),
        episode_key(episode), LangLower(lang_name), answers, d, files, t, <<>>)

MovieLanguage ==
    /\ pc = "calls"
    /\ media.kind = "movie"
    /\ \E answers \in MovieCallAnswers :
        LET r == movie_language(media, missing_subs[idx], answers, data,
                                download_dir, search_interval, now)
        IN  /\ catalog' = answers
            /\ plog' = plog \o r.calls
            /\ data' = r.d
            /\ download_dir' = r.files
    /\ disk' = _save_tracking_data(disk, data', ioFault)
    /\ idx' = idx + 1
    /\ pc' = IF idx = Len(missing_subs) THEN "done" ELSE "calls"
    /\ UNCHANGED <<now, ops, ioFault, call, subtitle_info, result, dlpc, media,
                   missing_subs, skipped_count, downloaded_files,
                   search_interval, runs>>

EpisodeLanguage ==
    /\ pc = "calls"
    /\ media.kind = "episode"
    /\ \E answers \in EpisodeCallAnswers :
        LET r == episode_language(media, missing_subs[idx], answers, data,
                                  download_dir, search_interval, now)
        IN  /\ catalog' = answers
            /\ plog' = plog \o r.calls
            /\ data' = r.d
            /\ download_dir' = r.files
    /\ disk' = _save_tracking_data(disk, data', ioFault)
    /\ idx' = idx + 1
    /\ pc' = IF idx = Len(missing_subs) THEN "done" ELSE "calls"
    /\ UNCHANGED <<now, ops, ioFault, call, subtitle_info, result, dlpc, media,
                   missing_subs, skipped_count, downloaded_files,
                   search_interval, runs>>

\* A downloader at the head of the language loop of one wanted subject.
CallsInit ==
    /\ TrackerIdle
    /\ DownloadIdle
    /\ media \in CallSubjects
    /\ missing_subs \in LangRequests
    /\ pc = "calls"
    /\ idx = 1
    /\ skipped_count = 0
    /\ downloaded_files = <<>>
    /\ plog = <<>>
    /\ search_interval \in SearchIntervals
    /\ runs = 0

CallsNext ==
    \/ MovieLanguage
    \/ EpisodeLanguage

SpecCalls == CallsInit /\ [][CallsNext]_vars

\* ------------------------------------------------------- delay properties
IsRequest(ev) ==
    ev \in {"search_request", "listing_request", "token_request",
            "archive_request"}

\* C12: every request sent to the catalog is followed by the fixed delay
\* before the next request is sent, whether it succeeded or failed.
C12_DelayAfterEveryCall ==
    \A k \in 1..Len(plog) :
        (IsRequest(plog[k]) /\ \E l \in (k + 1)..Len(plog) : IsRequest(plog[l]))
            => plog[k + 1] = "delay"

\* ============================================ api/bazarr.py: search interval
\* An interval text is a sequence of characters and words: <<"every", " ",
\* "1", " ", "hours">> is "every 1 hours".
\* int(text): surrounding whitespace is dropped, the rest is decimal digits
int(text) ==
    LET digits == rstrip(lstrip(text))
    IN  IF digits # <<>> /\ \A i \in 1..Len(digits) : IsDigit(digits[i])
        THEN [ret |-> ToInt(digits), exc |-> "none"]
        ELSE [ret |-> 0, exc |-> "ValueError"]

\* every\s+(\d+)\s+<unit>s? matched at position i: digits on a..b
MatchEvery(s, unit, i, a, b) ==
    /\ s[i] = "every"
    /\ i + 2 <= a /\ a <= b /\ b + 2 <= Len(s)
    /\ \A k \in (i + 1)..(a - 1) : IsSpace(s[k])
    /\ \A k \in a..b : IsDigit(s[k])
    /\ \E l \in (b + 2)..Len(s) :
          /\ s[l] = unit
          /\ \A k \in (b + 1)..(l - 1) : IsSpace(s[k])

EveryAt(s, unit, i) ==
    \E a \in 1..Len(s) : \E b \in a..Len(s) : MatchEvery(s, unit, i, a, b)

\* re.search(...).group(1) as a number, NoNumber when nothing matches
every_search(s, unit) ==
    IF \E i \in 1..Len(s) : EveryAt(s, unit, i)
    THEN LET i == CHOOSE i \in 1..Len(s) :
                    EveryAt(s, unit, i) /\ \A j \in 1..(i - 1) : ~EveryAt(s, unit, j)
             m == CHOOSE m \in (1..Len(s)) \X (1..Len(s)) :
                    m[1] <= m[2] /\ MatchEvery(s, unit, i, m[1], m[2])
         IN  ToInt(SubSeq(s, m[1], m[2]))
    ELSE NoNumber

Has(s, words) == \E i \in 1..Len(s) : s[i] \in words

\* text.split(":")[0]
BeforeColon(text) ==
    IF Has(text, {":"})
    THEN SubSeq(text, 1, (CHOOSE i \in 1..Len(text) :
                            text[i] = ":" /\ \A j \in 1..(i - 1) : text[j] # ":") - 1)
    ELSE text

\* text.split(":")[1] of a text with a colon
AfterColon(text) ==
    BeforeColon(SubSeq(text, Len(BeforeColon(text)) + 2, Len(text)))

\* the part of _parse_interval_to_minutes below the "every" block
ParseClockOrSuffix(s) ==
    LET hours == int(BeforeColon(s))
        minutes == int(AfterColon(s))
        front == int(SubSeq(s, 1, Len(s) - 1))
        failed == [ret |-> 0, exc |-> "ValueError"]
    IN  IF Has(s, {":"})
        THEN IF hours.exc # "none" \/ minutes.exc # "none" THEN failed
             ELSE [ret |-> hours.ret * 60 + minutes.ret, exc |-> "none"]
        ELSE IF s = <<>> THEN failed
        ELSE IF s[Len(s)] = "h"
        THEN IF front.exc # "none" THEN failed
             ELSE [ret |-> front.ret * 60, exc |-> "none"]
        ELSE IF s[Len(s)] = "m" THEN front
        ELSE IF s[Len(s)] = "s"
        THEN IF front.exc # "none" THEN failed
             ELSE [ret |-> front.ret \div 60, exc |-> "none"]
        ELSE IF s[Len(s)] \in {"hours", "minutes"} THEN failed
        ELSE IF \A i \in 1..Len(s) : IsDigit(s[i])
        THEN [ret |-> ToInt(s) * 60, exc |-> "none"]
        ELSE failed

_parse_interval_to_minutes(interval_str) ==
    LET s == title_lower(rstrip(lstrip(interval_str)))
        hours == every_search(s, "hours")
        minutes == every_search(s, "minutes")
    IN  IF s # <<>> /\ s[1] = "every" /\ Has(s, {"hours"}) /\ hours # NoNumber
        THEN [ret |-> hours * 60, exc |-> "none"]
        ELSE IF s # <<>> /\ s[1] = "every" /\ ~Has(s, {"hours"})
                /\ Has(s, {"minutes"}) /\ minutes # NoNumber
        THEN [ret |-> minutes, exc |-> "none"]
        ELSE IF s # <<>> /\ s[1] = "every" /\ ~Has(s, {"hours", "minutes"})
                /\ Has(s, {"sunday"})
        THEN [ret |-> 168 * 60, exc |-> "none"]
        ELSE IF s # <<>> /\ s[1] = "every" /\ ~Has(s, {"hours", "minutes"})
                /\ Has(s, {"day"})
        THEN [ret |-> 24 * 60, exc |-> "none"]
        ELSE ParseClockOrSuffix(s)

\* ----------------------------------------------- the interval of the task
\* The answer of /api/system/tasks: HttpError (get_system_tasks returns
\* None), a list of tasks, a dict whose "data" is a list of tasks or null,
\* or a JSON value of another type.
NullData == [k |-> "null_data", items |-> <<>>]

Task(name, interval) == [k |-> "dict", name |-> name, interval |-> interval]

\* one of search_task_names is contained in the task's name
IsSearchTask(task) == task.name = "Search for Missing Movies Subtitles"

FirstSearchTask(task_list) ==
    task_list[CHOOSE i \in 1..Len(task_list) :
        /\ IsDict(task_list[i]) /\ IsSearchTask(task_list[i])
        /\ \A j \in 1..(i - 1) :
              ~(IsDict(task_list[j]) /\ IsSearchTask(task_list[j]))]

\* get_missing_subtitles_search_interval: ret is the number of hours, exc the
\* exception that leaves the method.  A name or an interval of k "none" is
\* absent or null, of k "num" a JSON number.
get_missing_subtitles_search_interval(tasks) ==
    LET task_list == tasks.items
        task == FirstSearchTask(task_list)
        parsed == _parse_interval_to_minutes(task.interval.text)
    IN  IF tasks.k \in {"http_error", "bad_json"} THEN [ret |-> 24, exc |-> "none"]
        ELSE IF tasks.k = "not_dict" THEN [ret |-> 24, exc |-> "none"]
        ELSE IF tasks.k = "null_data" THEN [ret |-> 0, exc |-> "TypeError"]
        ELSE IF task_list = <<>> THEN [ret |-> 24, exc |-> "none"]
        ELSE IF \E i \in 1..Len(task_list) :
                    /\ IsDict(task_list[i])
                    /\ task_list[i].name = "null"
                    /\ \A j \in 1..(i - 1) :
                          ~(IsDict(task_list[j]) /\ IsSearchTask(task_list[j]))
        THEN [ret |-> 0, exc |-> "AttributeError"]
        ELSE IF ~\E i \in 1..Len(task_list) :
                    IsDict(task_list[i]) /\ IsSearchTask(task_list[i])
        THEN [ret |-> 24, exc |-> "none"]
        ELSE IF task.interval.k = "none" \/ task.interval = [k |-> "str", text |-> <<>>]
        THEN [ret |-> 24, exc |-> "none"]
        ELSE IF task.interval.k = "num" THEN [ret |-> 0, exc |-> "AttributeError"]
        ELSE IF parsed.exc = "ValueError" THEN [ret |-> 24, exc |-> "none"]
        ELSE [ret |-> parsed.ret \div 60, exc |-> "none"]

\* self.bazarr of a downloader built without a media-service client
NoClient == [k |-> "no_client", items |-> <<>>]

\* _get_search_interval_hours with nothing cached yet
_get_search_interval_hours(bazarr) ==
    IF bazarr = NoClient THEN [ret |-> 24, exc |-> "none"]
    ELSE get_missing_subtitles_search_interval(bazarr)

\* ----------------------------------------------- calls of the interval code
MaxInterval == 3

IntervalTokens ==
    { "1", "2", ":", "h", "H", "m", "s", " ", "every", "hours", "minutes",
      "day", "sunday" }

IntervalTexts ==
    { p \o m : p \in { <<>>, <<"every", " ">>, <<"1", ":">> },
               m \in UNION { [1..n -> IntervalTokens] : n \in 0..MaxInterval } }

ParseCall(text) ==
    [op |-> "_parse_interval_to_minutes", text |-> text, done |-> FALSE,
     ret |-> 0, exc |-> "none"]

\* intervals of the search task: absent, a JSON number, texts
TaskIntervals ==
    { [k |-> "none"], [k |-> "num"] }
    \cup { [k |-> "str", text |-> x] :
            x \in { <<>>, <<"2", "h">>, <<"1", ":", "2">>, <<"2", "m">>,
                    <<"1", "2", "2", "m">>, <<"every", " ", "1", " ", "minutes">>,
                    <<"every", " ", "day">>, <<"day">> } }

Tasks ==
    { Task(name, interval) :
        name \in { "Search for Missing Movies Subtitles", "Other", "null" },
        interval \in TaskIntervals }

TaskAnswers ==
    { HttpError, NotADict, NullData, NoClient, JsonList(<<>>) }
    \cup { JsonList(<<task>>) : task \in Tasks }
    \cup { JsonDict(<<NonDict, task>>) : task \in Tasks }

ParseIntervalToMinutes ==
    /\ call.op = "_parse_interval_to_minutes"
    /\ ~call.done
    /\ call' = [call EXCEPT !.done = TRUE,
                            !.ret = _parse_interval_to_minutes(call.text).ret,
                            !.exc = _parse_interval_to_minutes(call.text).exc]
    /\ UNCHANGED <<data, disk, now, ops, ioFault, downloadVars, pipelineVars>>

\* the first _get_search_interval_hours of a downloader
GetSearchIntervalHours ==
    /\ dlpc = "ready"
    /\ result' = _get_search_interval_hours(catalog)
    /\ search_interval' = IF result'.exc = "none" THEN result'.ret ELSE search_interval
    /\ dlpc' = IF result'.exc = "none" THEN "returned" ELSE "raised"
    /\ UNCHANGED <<trackerVars, subtitle_info, catalog, download_dir, media,
                   missing_subs, pc, idx, skipped_count, downloaded_files, plog,
                   runs>>

\* a search that found nothing, once the interval is known
IntervalRecord ==
    /\ dlpc = "returned"
    /\ RecordNoSubtitlesFound
    /\ UNCHANGED <<downloadVars, pipelineVars>>

\* the skip check of get_subtitle_for_movie with the interval obtained
IntervalSkipCheck ==
    /\ dlpc = "returned"
    /\ \E title \in Titles, language \in Languages :
        LET r == should_skip_search(data, title, language, 2 * search_interval, now)
        IN  call' = [op |-> "interval_skip_check", title |-> title,
                     language |-> language, threshold2 |-> 2 * search_interval,
                     t |-> now, ret |-> r.ret, exc |-> r.exc]
    /\ UNCHANGED <<data, disk, now, ops, ioFault, downloadVars, pipelineVars>>

IntervalInit ==
    /\ disk = FileAbsent
    /\ data = EmptyLedger
    /\ now = 0
    /\ ops = 0
    /\ ioFault = FALSE
    /\ subtitle_info = NoInfo
    /\ download_dir = NoFiles
    /\ result = NoResult
    /\ \/ /\ call \in { ParseCall(text) : text \in IntervalTexts }
          /\ catalog = NoClient
          /\ dlpc = "idle"
       \/ /\ call = NoCall
          /\ catalog \in TaskAnswers
          /\ dlpc = "ready"
    /\ PipelineIdle

IntervalNext ==
    \/ ParseIntervalToMinutes
    \/ GetSearchIntervalHours
    \/ IntervalRecord
    \/ IntervalSkipCheck

SpecInterval == IntervalInit /\ [][IntervalNext]_vars

\* ---------------------------------------------------- interval properties
ParsedText == title_lower(rstrip(lstrip(call.text)))

AllDigitTokens(text) ==
    text # <<>> /\ \A i \in 1..Len(text) : IsDigit(text[i])

\* the text is "every", blanks, the number n, blanks, the unit, and possibly
\* more after a blank
IsEvery(text, unit, b) ==
    /\ Len(text) >= b + 2
    /\ text[1] = "every" /\ IsSpace(text[2])
    /\ AllDigitTokens(SubSeq(text, 3, b))
    /\ IsSpace(text[b + 1]) /\ text[b + 2] = unit
    /\ Len(text) > b + 2 => IsSpace(text[b + 3])

IsEveryWord(text, word) ==
    /\ Len(text) >= 3
    /\ text[1] = "every" /\ IsSpace(text[2]) /\ text[3] = word
    /\ Len(text) > 3 => IsSpace(text[4])

\* HH:MM and HH:MM:SS
IsClock(text) ==
    \E a, b \in 1..Len(text) :
        /\ a < b
        /\ AllDigitTokens(SubSeq(text, 1, a)) /\ text[a + 1] = ":"
        /\ AllDigitTokens(SubSeq(text, a + 2, b))
        /\ \/ b = Len(text)
           \/ /\ b + 1 < Len(text) /\ text[b + 1] = ":"
              /\ AllDigitTokens(SubSeq(text, b + 2, Len(text)))

ClockMinutes(text) ==
    LET a == CHOOSE a \in 1..Len(text) : text[a + 1] = ":" /\ AllDigitTokens(SubSeq(text, 1, a))
        rest == SubSeq(text, a + 2, Len(text))
        b == CHOOSE b \in 1..Len(rest) :
                AllDigitTokens(SubSeq(rest, 1, b)) /\ (b = Len(rest) \/ rest[b + 1] = ":")
    IN  60 * ToInt(SubSeq(text, 1, a)) + ToInt(SubSeq(rest, 1, b))

Front(text) == SubSeq(text, 1, Len(text) - 1)

IsSuffixed(text, unit) ==
    Len(text) >= 2 /\ text[Len(text)] = unit /\ AllDigitTokens(Front(text))

\* the minutes the listed formats stand for, NoNumber for any other text
ListedMinutes(text) ==
    IF IsClock(text) THEN ClockMinutes(text)
    ELSE IF AllDigitTokens(text) THEN 60 * ToInt(text)
    ELSE IF IsSuffixed(text, "h") THEN 60 * ToInt(Front(text))
    ELSE IF IsSuffixed(text, "m") THEN ToInt(Front(text))
    ELSE IF IsSuffixed(text, "s") THEN ToInt(Front(text)) \div 60
    ELSE IF \E b \in 3..Len(text) : IsEvery(text, "hours", b)
    THEN 60 * ToInt(SubSeq(text, 3, CHOOSE b \in 3..Len(text) : IsEvery(text, "hours", b)))
    ELSE IF \E b \in 3..Len(text) : IsEvery(text, "minutes", b)
    THEN ToInt(SubSeq(text, 3, CHOOSE b \in 3..Len(text) : IsEvery(text, "minutes", b)))
    ELSE IF IsEveryWord(text, "sunday") THEN 10080
    ELSE IF IsEveryWord(text, "day") THEN 1440
    ELSE NoNumber

\* C23: _parse_interval_to_minutes returns the minutes of each listed format
\* (HH:MM, HH:MM:SS, N, Nh, Nm, Ns, every N hours, every N minutes, every
\* <weekday>, every day) and raises ValueError for every other text.
C23_ListedFormatsElseValueError ==
    (call.op = "_parse_interval_to_minutes" /\ call.done) =>
        IF ListedMinutes(ParsedText) # NoNumber
        THEN call.exc = "none" /\ call.ret = ListedMinutes(ParsedText)
        ELSE call.exc = "ValueError"

Asked == dlpc \in {"returned", "raised"}

NamesSearchTask ==
    \E i \in 1..Len(catalog.items) :
        IsDict(catalog.items[i]) /\ IsSearchTask(catalog.items[i])

SearchTaskInterval ==
    (CHOOSE task \in Tasks :
        \E i \in 1..Len(catalog.items) : catalog.items[i] = task /\ IsSearchTask(task)).interval

\* the answer carries no usable interval: the query failed, the answer has
\* another shape, no task is the search task, or its interval is missing or
\* is no parsable text
NoUsableInterval ==
    \/ catalog.k \in {"http_error", "not_dict", "null_data", "no_client"}
    \/ ~NamesSearchTask
    \/ SearchTaskInterval.k # "str"
    \/ _parse_interval_to_minutes(SearchTaskInterval.text).exc # "none"

\* C22: the interval query never raises, and gives 24 hours whenever the
\* answer carries no usable interval or there is no media-service client.
C22_DefaultsTo24NeverRaises ==
    Asked => /\ dlpc = "returned"
             /\ NoUsableInterval => search_interval = 24

\* C30: with the interval obtained from the media service, a no-subtitles
\* result recorded at the current moment makes the skip check return True.
C30_FreshResultIsSkipped ==
    (/\ call.op = "interval_skip_check"
     /\ get_last_no_subtitles_timestamp(data, call.title, call.language)
            = isoformat(now))
        => call.ret = TRUE

\* ============================================ core/tracking.py: subject keys
MaxTitle == 4

TitleChars == { "a", "H", "h", " " }

TitleTexts == UNION { [1..n -> TitleChars] : n \in 0..MaxTitle }

\* record_no_subtitles_found(call.title, ...) on an empty ledger
KeyRecord ==
    /\ call.op = "record_no_subtitles_found"
    /\ ~call.ret
    /\ data = EmptyLedger
    /\ data' = record_no_subtitles_found(data, call.title, call.language, now)
    /\ disk' = _save_tracking_data(disk, data', ioFault)
    /\ ops' = ops + 1
    /\ call' = [call EXCEPT !.ret = TRUE]
    /\ UNCHANGED <<now, ioFault, downloadVars, pipelineVars>>

KeyInit ==
    /\ disk = FileAbsent
    /\ data = EmptyLedger
    /\ now = 0
    /\ ops = 0
    /\ ioFault = FALSE
    /\ call \in { RecordCall("record_no_subtitles_found", title, "english") :
                    title \in TitleTexts }
    /\ DownloadIdle
    /\ PipelineIdle

KeyNext == KeyRecord

SpecKey == KeyInit /\ [][KeyNext]_vars

\* ----------------------------------------------------------- key properties
\* the words of a title: its maximal runs of non-blank characters, in lower
\* case
RECURSIVE WordsOf(_)
WordsOf(title) ==
    IF title = <<>> THEN <<>>
    ELSE IF IsSpace(title[1]) THEN WordsOf(Tail(title))
    ELSE LET n == CHOOSE n \in 1..Len(title) :
                    /\ \A i \in 1..n : ~IsSpace(title[i])
                    /\ n = Len(title) \/ IsSpace(title[n + 1])
         IN  <<[i \in 1..n |-> lower(title[i])]>> \o WordsOf(SubSeq(title, n + 1, Len(title)))

\* C21: ledger operations address entries by the normalized key: titles that
\* differ only in letter case or whitespace reach the one entry a record
\* call made, and normalizing a stored key returns it unchanged.
C21_OneEntryPerNormalizedTitle ==
    (call.op = "record_no_subtitles_found" /\ call.ret = TRUE) =>
        /\ Cardinality(DOMAIN data) = 1
        /\ \A k \in DOMAIN data : _get_movie_key(k) = k
        /\ \A other \in TitleTexts :
              WordsOf(other) = WordsOf(call.title) =>
                /\ get_last_no_subtitles_timestamp(data, other, call.language)
                        = isoformat(call.t)
                /\ DOMAIN record_download_failure(data, other, call.language,
                                                  "Download failed", now)
                        = DOMAIN data

C21_Witness ==
    /\ call.op = "record_no_subtitles_found" /\ call.ret = TRUE
    /\ call.title = <<"H", " ", " ", "a">>
    /\ DOMAIN data = { <<"h", " ", "a">> }

\* ================================================ run.py: main, uploads
\* Values of a JSON object's keys as Python sees them: a missing key, an
\* int, a str.
Absent == [ty |-> "absent", n |-> 0, s |-> <<>>]
IntVal(n) == [ty |-> "int", n |-> n, s |-> <<>>]
StrVal(s) == [ty |-> "str", n |-> 0, s |-> s]

\* Python truth of dict.get(key): None, 0 and "" are false
TruthyValue(v) ==
    \/ v.ty = "int" /\ v.n # 0
    \/ v.ty = "str" /\ v.s # <<>>

\* a or b
Or(a, b) == IF TruthyValue(a) THEN a ELSE b

\* dict.get(key, default)
GetOr(v, default) == IF v.ty = "absent" THEN default ELSE v

\* One element of missing_subtitles.
Request(name, code2, forced, hi) ==
    [name |-> name, code2 |-> code2, forced |-> forced, hi |-> hi]

\* text.split(sep)
RECURSIVE Split(_, _)
Split(text, sep) ==
    IF \A i \in 1..Len(text) : text[i] # sep THEN <<text>>
    ELSE LET i == CHOOSE i \in 1..Len(text) :
                    text[i] = sep /\ \A j \in 1..(i - 1) : text[j] # sep
         IN  <<SubSeq(text, 1, i - 1)>> \o Split(SubSeq(text, i + 1, Len(text)), sep)

\* An episode dictionary: the keys the media-service client writes and the
\* keys run.main reads.
EpisodeDict(series_title, seriesTitle, season, episode_number, episode_,
            stored_series_id, stored_episode_id, sonarrSeriesId,
            sonarrEpisodeId, subs) ==
    [kind |-> "episode", series_title |-> series_title,
     seriesTitle |-> seriesTitle, season |-> season,
     episode_number |-> episode_number, episode |-> episode_,
     sonarr_series_id |-> stored_series_id,
     sonarr_episode_id |-> stored_episode_id,
     sonarrSeriesId |-> sonarrSeriesId, sonarrEpisodeId |-> sonarrEpisodeId,
     seriesId |-> Absent, episodeId |-> Absent, title |-> Absent,
     radarrId |-> Absent, missing_subtitles |-> subs]

NoEpisode == [kind |-> "none"]

EnrichResult(ret, exc) == [ret |-> ret, exc |-> exc]

\* Bazarr._enrich_episode_data.  raw is an element of the wanted-episodes
\* answer; the two-name unpacking of split("x") raises ValueError unless
\* there are exactly two parts.
_enrich_episode_data(raw) ==
    LET parts == Split(GetOr(raw.episode_number, StrVal(<<>>)).s, "x")
    IN  IF Len(parts) # 2 THEN EnrichResult(NoEpisode, "ValueError")
        ELSE EnrichResult(
                EpisodeDict(
                    StrVal(rstrip(lstrip(
                        GetOr(raw.seriesTitle, StrVal(<<"Unknown Series">>)).s))),
                    Absent, StrVal(parts[1]), StrVal(parts[2]), Absent,
                    GetOr(raw.sonarrSeriesId, StrVal(<<>>)),
                    GetOr(raw.sonarrEpisodeId, StrVal(<<>>)),
                    Absent, Absent, raw.missing_subtitles),
                "none")

\* str(n) for 0 <= n < 100, as a sequence of characters
Digits(n) ==
    IF n < 10 THEN <<StrNumber(n)>>
    ELSE <<StrNumber(n \div 10), StrNumber(n)>>

\* f"{value}"
Format(v) ==
    CASE v.ty = "absent" -> <<"None">>
      [] v.ty = "int"    -> Digits(v.n)
      [] OTHER           -> v.s

\* f"{value:02d}" of an int below 100; a str raises ValueError and None
\* raises TypeError
Format02d(v) == IF v.n < 10 THEN <<"0", StrNumber(v.n)>> ELSE Digits(v.n)

\* search_episode_subtitles: episode.get("series_title", "Unknown"),
\* episode.get("season", 0), episode.get("episode_number", 0) in
\* f"{series_title}:S{season}E{episode_number}"
search_episode_key(episode) ==
    Format(GetOr(episode.series_title, StrVal(<<"Unknown">>)))
        \o <<":", "S">> \o Format(GetOr(episode.season, IntVal(0)))
        \o <<"E">> \o Format(GetOr(episode.episode_number, IntVal(0)))

\* get_subtitle_for_episode: the same f-string over episode.get(...) without
\* defaults
get_subtitle_episode_key(episode) ==
    Format(episode.series_title)
        \o <<":", "S">> \o Format(episode.season)
        \o <<"E">> \o Format(episode.episode_number)

KeyResult(ret, exc) == [ret |-> ret, exc |-> exc]

\* run.main: f"{series_title}:S{season:02d}E{episode_num:02d}" over
\* episode.get("seriesTitle", "Unknown"), episode.get("season", 0),
\* episode.get("episode", 0)
main_episode_key(episode) ==
    LET series_title == GetOr(episode.seriesTitle, StrVal(<<"Unknown">>))
        season == GetOr(episode.season, IntVal(0))
        episode_num == GetOr(episode.episode, IntVal(0))
    IN  IF season.ty = "str" \/ episode_num.ty = "str"
        THEN KeyResult(<<>>, "ValueError")
        ELSE KeyResult(Format(series_title) \o <<":", "S">> \o Format02d(season)
                           \o <<"E">> \o Format02d(episode_num), "none")

\* a number extracted from a release text == a value of the episode
\* dictionary: an int never equals a str
EqualsValue(number, v) == v.ty = "int" /\ v.n = number

\* _is_subtitle_match on the episode dictionary.  sub is what
\* _extract_episode_info_from_subtitle returned.
_is_subtitle_match_episode(sub, target_episode) ==
    LET target_season == target_episode.season
        target_episode_num ==
            Or(target_episode.episode_number, target_episode.episode)
    IN  IF ~TruthyValue(target_season) \/ ~TruthyValue(target_episode_num)
        THEN FALSE
        ELSE IF sub[1] # NoNumber /\ sub[2] # NoNumber
        THEN EqualsValue(sub[1], target_season)
                /\ EqualsValue(sub[2], target_episode_num)
        ELSE IF sub[2] # NoNumber THEN EqualsValue(sub[2], target_episode_num)
        ELSE FALSE

\* "for subtitle in subtitles: if self._is_subtitle_match(subtitle, episode)"
matching_subtitles(subtitles, episode) ==
    SelectSeq(subtitles, LAMBDA s :
        _is_subtitle_match_episode(
            _extract_episode_info_from_subtitle(s.release_info), episode))

\* ---------------------------------------------------------- run.main steps
\* A movie dictionary of the wanted-movies answer.
MovieDict(title, radarrId, subs) ==
    [kind |-> "movie", series_title |-> Absent, seriesTitle |-> Absent,
     season |-> Absent, episode_number |-> Absent, episode |-> Absent,
     sonarr_series_id |-> Absent, sonarr_episode_id |-> Absent,
     sonarrSeriesId |-> Absent, sonarrEpisodeId |-> Absent,
     seriesId |-> Absent, episodeId |-> Absent, title |-> title,
     radarrId |-> radarrId, missing_subtitles |-> subs]

\* One element of the wanted-episodes answer, before enrichment.
RawEpisode(seriesTitle, episode_number, series_id, episode_id, subs) ==
    [kind |-> "raw_episode", seriesTitle |-> seriesTitle,
     episode_number |-> episode_number, sonarrSeriesId |-> series_id,
     sonarrEpisodeId |-> episode_id, missing_subtitles |-> subs]

English == Request("English", "en", FALSE, FALSE)
Spanish == Request("Spanish", "es", FALSE, TRUE)

RunRequests == { <<English>>, <<English, Spanish>>, <<Spanish, English>> }

WantedItems ==
    { MovieDict(StrVal(<<"H">>), id, subs) :
        id \in {IntVal(3), Absent}, subs \in RunRequests }
    \cup { RawEpisode(StrVal(<<"H", " ">>), StrVal(number), IntVal(5),
                      IntVal(7), subs) :
            number \in { <<"1", "x", "1">>, <<"1", "x", "0">>, <<"1">> },
            subs \in RunRequests }

\* Season listings of the catalog: elements name S1E1, 1x0, or no episode.
RunListings ==
    { <<>>,
      <<EpisodeSubtitle(<<"S", "1", "e", "1">>), EpisodeSubtitle(<<"1", "x", "0">>)>>,
      <<EpisodeSubtitle(<<"x">>)>> }

\* The subject under which get_subtitle_for_movie / get_subtitle_for_episode
\* asks the ledger and records a failed download.
SubjectOf(item) ==
    IF item.kind = "movie"
    THEN GetOr(item.title, StrVal(<<"Unknown">>)).s
    ELSE get_subtitle_episode_key(item)

\* The subject under which search_subtitles / search_episode_subtitles
\* record a search that found nothing.
SearchSubjectOf(item) ==
    IF item.kind = "movie"
    THEN GetOr(item.title, StrVal(<<"Unknown">>)).s
    ELSE search_episode_key(item)

\* What the client hands to run.main for an element of the wanted answer.
Delivered(item) ==
    IF item.kind = "raw_episode" THEN _enrich_episode_data(item)
    ELSE EnrichResult(item, "none")

\* A file get_subtitle_for_* returns, with the position of the language
\* request it was searched and downloaded for.
DownloadedFile(i) == [path |-> <<"f", StrNumber(i)>>, request |-> i]

RunEvent(ev, file, id1, id2, request, key, language, ret) ==
    [ev |-> ev, file |-> file, id1 |-> id1, id2 |-> id2, code2 |-> request.code2,
     forced |-> request.forced, hi |-> request.hi, key |-> key,
     language |-> language, ret |-> ret]

NoFile == [path |-> <<>>, request |-> 0]
NoRequest == Request("", "", FALSE, FALSE)

\* bazarr.get_wanted_movies() / get_wanted_episodes(), then
\* tracker.cleanup_obsolete_movies(wanted).  An exception of the client is
\* caught by main's "except Exception" and ends the run with sys.exit(1).
\* The eviction keys on the "title" of the wanted dictionaries; what it keeps
\* for dictionaries without one is left open.
GetWanted ==
    LET got == Delivered(catalog.wanted)
        item == got.ret
        cleaned == IF item.kind = "movie"
                   THEN { cleanup_obsolete_movies(data, <<SubjectOf(item)>>).d }
                   ELSE { data, EmptyLedger }
    IN  /\ pc = "start"
        /\ IF got.exc # "none"
           THEN /\ pc' = "fatal"
                /\ UNCHANGED <<media, missing_subs, idx, data, disk>>
           ELSE /\ pc' = "loop"
                /\ media' = item
                /\ missing_subs' = item.missing_subtitles
                /\ idx' = 1
                /\ data' \in cleaned
                /\ disk' = IF data' = data THEN disk
                           ELSE _save_tracking_data(disk, data', ioFault)
        /\ UNCHANGED <<now, ops, ioFault, call, downloadVars, skipped_count,
                       downloaded_files, plog, search_interval, runs>>

\* What a movie search comes back with, and what download_subtitle does.
RunSearches == { "found", "empty", "raise" }
RunDownloads == { "file", "none" }

\* One pass of "for sub in missing_subs" in get_subtitle_for_movie /
\* get_subtitle_for_episode.
GetSubtitleLanguage ==
    \E search \in RunSearches, download \in RunDownloads :
        LET sub == missing_subs[idx]
            language == LangLower(sub.name)
            skip == should_skip_search(data, SubjectOf(media), language,
                                       2 * search_interval, now)
            results == IF media.kind = "movie"
                       THEN IF search = "found" THEN <<ListedSubtitle>> ELSE <<>>
                       ELSE matching_subtitles(catalog.listing, media)
        IN  /\ pc = "loop"
            /\ idx <= Len(missing_subs)
            /\ skip.exc = "none"
            /\ idx' = idx + 1
            /\ result' = IF skip.ret \/ search = "raise" THEN result
                          ELSE SearchResult(results, "none", <<>>, NoLink, data)
            /\ IF skip.ret
               THEN /\ skipped_count' = skipped_count + 1
                    /\ UNCHANGED <<pc, data, disk, downloaded_files, download_dir>>
               ELSE /\ UNCHANGED skipped_count
                    /\ IF search = "raise"
                       THEN /\ pc' = "fatal"
                            /\ UNCHANGED <<data, disk, downloaded_files, download_dir>>
                       ELSE IF results = <<>>
                       THEN /\ data' = record_no_subtitles_found(
                                           data, SearchSubjectOf(media), language, now)
                            /\ disk' = _save_tracking_data(disk, data', ioFault)
                            /\ UNCHANGED <<pc, downloaded_files, download_dir>>
                       ELSE IF download = "file"
                       THEN /\ downloaded_files' =
                                   Append(downloaded_files, DownloadedFile(idx))
                            /\ download_dir' =
                                   download_dir \cup {DownloadedFile(idx).path}
                            /\ UNCHANGED <<pc, data, disk>>
                       ELSE /\ data' = record_download_failure(
                                           data, SubjectOf(media), language,
                                           "Download failed", now)
                            /\ disk' = _save_tracking_data(disk, data', ioFault)
                            /\ UNCHANGED <<pc, downloaded_files, download_dir>>
            /\ UNCHANGED <<now, ops, ioFault, call, subtitle_info, catalog,
                           dlpc, media, missing_subs, plog, search_interval,
                           runs>>

\* movie.get("radarrId", movie.get("radarrid"))
RadarrId(movie) == movie.radarrId

\* episode.get("sonarrSeriesId") or episode.get("seriesId")
main_series_id(episode) == Or(episode.sonarrSeriesId, episode.seriesId)

\* episode.get("sonarrEpisodeId") or episode.get("episodeId")
main_episode_id(episode) == Or(episode.sonarrEpisodeId, episode.episodeId)

\* get_subtitle_for_* returns to main: "if not downloaded_files: continue"
\* and, for a movie, "if not radarr_id: continue" lead to the next item,
\* which is the summary here.
GetSubtitleDone ==
    /\ pc = "loop"
    /\ idx > Len(missing_subs)
    /\ idx' = 1
    /\ pc' = IF downloaded_files = <<>> THEN "summary"
             ELSE IF media.kind = "movie" /\ ~TruthyValue(RadarrId(media))
             THEN "summary"
             ELSE "upload"
    /\ UNCHANGED <<trackerVars, downloadVars, media, missing_subs,
                   skipped_count, downloaded_files, plog, search_interval, runs>>

\* One pass of the upload loop of run.main over downloaded_files.
\* Movie: the file at position j goes with missing_subs[j].  Episode: every
\* file goes with missing_subs[0], forced and hi are not passed, and the
\* identifiers are read from sonarrSeriesId / seriesId and sonarrEpisodeId /
\* episodeId.  uploaded is the answer of the upload call, unlinked whether
\* os.remove succeeded (its OSError is swallowed).  The calls that fetch the
\* uploaded subtitle's path and post-process it act on the media service
\* only.
UploadFile ==
    \E uploaded \in BOOLEAN, unlinked \in BOOLEAN :
        LET file == downloaded_files[idx]
            movie == media.kind = "movie"
            sub_info == IF movie THEN missing_subs[idx] ELSE missing_subs[1]
            request == IF movie THEN sub_info
                       ELSE Request(sub_info.name, sub_info.code2, FALSE, FALSE)
            id1 == IF movie THEN RadarrId(media) ELSE main_series_id(media)
            id2 == IF movie THEN Absent ELSE main_episode_id(media)
            attempted == movie \/ (TruthyValue(id1) /\ TruthyValue(id2))
            key == IF movie
                   THEN KeyResult(GetOr(media.title, StrVal(<<"Unknown">>)).s, "none")
                   ELSE main_episode_key(media)
            language == LangLower(sub_info.name)
            removal == remove_successful_download(data, key.ret, language)
            upload == RunEvent("upload", file, id1, id2, request, <<>>, "",
                               uploaded)
        IN  /\ pc = "upload"
            /\ idx <= Len(downloaded_files)
            /\ idx' = idx + 1
            /\ IF ~attempted
               THEN /\ plog' = Append(plog, RunEvent("missing_ids", file, id1, id2,
                                                     NoRequest, <<>>, "", FALSE))
                    /\ UNCHANGED <<pc, data, disk, download_dir>>
               ELSE IF ~uploaded
               THEN /\ plog' = Append(plog, upload)
                    /\ UNCHANGED <<pc, data, disk, download_dir>>
               ELSE IF key.exc # "none"
               THEN /\ plog' = Append(plog, upload)
                    /\ pc' = "fatal"
                    /\ UNCHANGED <<data, disk, download_dir>>
               ELSE /\ plog' = plog \o
                        <<upload,
                          RunEvent("remove_successful_download", file, id1, id2,
                                   NoRequest, key.ret, language, removal.ret),
                          RunEvent("os_remove", file, id1, id2, NoRequest,
                                   <<>>, "", unlinked)>>
                    /\ data' = removal.d
                    /\ disk' = IF removal.ret
                               THEN _save_tracking_data(disk, data', ioFault)
                               ELSE disk
                    /\ download_dir' = IF unlinked THEN download_dir \ {file.path}
                                       ELSE download_dir
                    /\ UNCHANGED pc
            /\ UNCHANGED <<now, ops, ioFault, call, subtitle_info, catalog,
                           result, dlpc, media, missing_subs, skipped_count,
                           downloaded_files, search_interval, runs>>

\* the upload loop is over: the next item, which is the summary here
UploadDone ==
    /\ pc = "upload"
    /\ idx > Len(downloaded_files)
    /\ pc' = "summary"
    /\ UNCHANGED <<trackerVars, downloadVars, media, missing_subs, idx,
                   skipped_count, downloaded_files, plog, search_interval, runs>>

\* _get_search_interval_hours of a downloader without a client, in hours
RunInterval == 24

\* The ledger an earlier run left for the item: nothing, or a search of one
\* language that found nothing, made within the interval.
EarlierLedgers(item) ==
    LET got == Delivered(item)
    IN  IF got.exc # "none" THEN { EmptyLedger }
        ELSE { EmptyLedger }
             \cup { record_no_subtitles_found(EmptyLedger, SearchSubjectOf(got.ret),
                                              language, 0) :
                        language \in Languages }

RunInit ==
    /\ \E item \in WantedItems :
          /\ catalog \in { [wanted |-> item, listing |-> l] : l \in
                            IF item.kind = "movie" THEN { <<>> } ELSE RunListings }
          /\ data \in EarlierLedgers(item)
    /\ disk = IF data = EmptyLedger THEN FileAbsent ELSE FileDoc(data)
    /\ now = 0
    /\ ops = 0
    /\ ioFault = FALSE
    /\ call = NoCall
    /\ subtitle_info = NoInfo
    /\ download_dir = {}
    /\ result = NoResult
    /\ dlpc = "idle"
    /\ media = NoMedia
    /\ missing_subs = <<>>
    /\ pc = "start"
    /\ idx = 0
    /\ skipped_count = 0
    /\ downloaded_files = <<>>
    /\ plog = <<>>
    /\ search_interval = RunInterval
    /\ runs = 0

RunNext ==
    \/ GetWanted
    \/ GetSubtitleLanguage
    \/ GetSubtitleDone
    \/ UploadFile
    \/ UploadDone

SpecRun == RunInit /\ [][RunNext]_vars

\* ------------------------------------------------------- run properties
Uploads == { k \in 1..Len(plog) : plog[k].ev = "upload" }

\* the language request a file was searched and downloaded for
RequestOf(file) == missing_subs[file.request]

\* C26: every upload carries the language code and the forced and
\* hearing-impaired flags of the language request its file was downloaded
\* for, whatever happened to the requests before it.
C26_UploadCarriesItsRequest ==
    \A k \in Uploads :
        /\ plog[k].code2 = RequestOf(plog[k].file).code2
        /\ plog[k].forced = RequestOf(plog[k].file).forced
        /\ plog[k].hi = RequestOf(plog[k].file).hi

\* the season and episode numbers the media service names in its
\* "<season>x<episode>" field
NamedNumbers ==
    LET parts == Split(catalog.wanted.episode_number.s, "x")
    IN  <<ToInt(parts[1]), ToInt(parts[2])>>

EpisodeSearched ==
    /\ media.kind = "episode"
    /\ pc \in {"loop", "upload", "summary"}
    /\ result # NoResult

\* C27: for an episode the media-service client delivered, the episode
\* search returns every listed subtitle whose release text names the
\* episode's season and episode numbers.
C27_DeliveredEpisodeMatchesItsNumbers ==
    EpisodeSearched =>
        \A i \in 1..Len(catalog.listing) :
            _extract_episode_info_from_subtitle(catalog.listing[i].release_info)
                    = NamedNumbers
                => \E j \in 1..Len(result.ret) : result.ret[j] = catalog.listing[i]

\* C28: for an episode the media-service client delivered, the identifiers
\* run.main reads are the ones the client stored, and every file
\* get_subtitle_for_episode returned has had its upload attempted with them
\* when the upload loop is over.
C28_UploadUsesStoredIds ==
    media.kind = "episode" =>
        /\ main_series_id(media) = media.sonarr_series_id
        /\ main_episode_id(media) = media.sonarr_episode_id
        /\ pc = "summary" =>
              \A i \in 1..Len(downloaded_files) :
                  \E k \in Uploads :
                      /\ plog[k].file = downloaded_files[i]
                      /\ plog[k].id1 = media.sonarr_series_id
                      /\ plog[k].id2 = media.sonarr_episode_id

\* C29: for an episode, the key the search records under, the key
\* get_subtitle_for_episode asks and records under and the key run.main
\* removes are one and the same, and every removal run.main made used it.
C29_OneEpisodeKey ==
    media.kind = "episode" =>
        /\ search_episode_key(media) = get_subtitle_episode_key(media)
        /\ main_episode_key(media).exc = "none"
        /\ _get_movie_key(main_episode_key(media).ret)
                = _get_movie_key(search_episode_key(media))
        /\ \A k \in 1..Len(plog) :
              plog[k].ev = "remove_successful_download"
                  => _get_movie_key(plog[k].key)
                        = _get_movie_key(get_subtitle_episode_key(media))

\* the position in plog of the upload of a file, 0 when there is none
UploadOf(file) ==
    IF \E k \in Uploads : plog[k].file = file
    THEN CHOOSE k \in Uploads : plog[k].file = file
    ELSE 0

\* C24: a downloaded movie subtitle is uploaded; after a successful upload
\* the ledger record of the movie and of the language the file was
\* downloaded for is removed, then the local file is deleted; the run
\* reaches the summary and does not end in the fatal exit.
C24_UploadThenRemoveThenDelete ==
    (/\ media.kind = "movie"
     /\ TruthyValue(RadarrId(media))
     /\ downloaded_files # <<>>) =>
        /\ pc # "fatal"
        /\ pc = "summary" =>
              \A i \in 1..Len(downloaded_files) :
                  LET file == downloaded_files[i]
                      k == UploadOf(file)
                      language == LangLower(RequestOf(file).name)
                  IN  /\ k # 0
                      /\ plog[k].ret =>
                            /\ plog[k + 1].ev = "remove_successful_download"
                            /\ plog[k + 1].key = media.title.s
                            /\ plog[k + 1].language = language
                            /\ FindEntry(Entries(data, _get_movie_key(media.title.s)),
                                         language) = 0
                            /\ plog[k + 2].ev = "os_remove"
                            /\ plog[k + 2].ret => file.path \notin download_dir

\* ------------------------------------------- search results and the ledger
\* The subject get_subtitle_for_movie / get_subtitle_for_episode hands to
\* should_skip_search: the title, or
\* f"{series_title}:S{season}E{episode_number}".
SkipCheckSubject ==
    IF media.kind = "movie" THEN media.title
    ELSE media.series_title
            \o <<":", "S", StrNumber(media.season), "E",
                 StrNumber(media.episode_number)>>

\* C25: a search that returns the empty list has written a no-subtitles
\* timestamp of the present time under the subject and language of the
\* following skip check, which therefore answers True within the interval;
\* a search that returns subtitles leaves the ledger as it was.
C25_EmptyResultIsRecorded ==
    dlpc = "returned" =>
        IF result.ret = <<>>
        THEN /\ get_last_no_subtitles_timestamp(data, SkipCheckSubject, "english")
                    = isoformat(now)
             /\ \A hours \in {1, RunInterval} :
                    should_skip_search(data, SkipCheckSubject, "english",
                                       2 * hours, now).ret
        ELSE data = EmptyLedger

C25_Witness ==
    /\ dlpc = "returned"
    /\ media.kind = "episode"
    /\ catalog.search.k = "dict"
    /\ catalog.listing.k = "http_error"
    /\ result.ret = <<>>
    /\ result.listing # NoLink
    /\ DOMAIN data = { _get_movie_key(SkipCheckSubject) }

====
